---- MODULE Spec2Model ----
(***************************************************************************)
(* ILocker: the SecurityService (password, master key, lockout, session    *)
(* timer, cipher) and the streaming FileService built on it.               *)
(*                                                                         *)
(* Every async handler of SecurityService is one action: its awaits are    *)
(* Keychain calls, and no other SecurityService call is started while one  *)
(* is pending.  The chunk loops of FileService are one action per          *)
(* iteration, because each iteration ends in an await that lets lock(),    *)
(* the inactivity timer and other callers run.                             *)
(***************************************************************************)
EXTENDS Integers, Sequences, FiniteSets, TLC

VARIABLES
  masterKey,        \* SecurityService.masterKey (Buffer | null)
  failedAttempts,   \* SecurityService.failedAttempts
  inactivityTimer,  \* TRUE iff SecurityService.inactivityTimer holds a pending timeout
  keychain,         \* react-native-keychain: one slot per service
  storage,          \* MMKV instance 'ilocker-secure-storage'
  saltCtr,          \* number of salts Crypto.randomBytes(16) has produced
  last,             \* the last call made on the services and what it returned
  streak,           \* history: mismatching verifyPassword calls in a row in this process
  relock,           \* history: what has happened since lock() last returned
  chg,              \* history: the last changePassword that returned true, while its credential stands
  disk,             \* the files under SECURE_DIR, THUMBNAIL_DIR and CACHE_DIR
  fileCtr,          \* number of ids generateFileId has produced
  proc,             \* the FileService call in progress, with its local variables
  plain,            \* history: the source bytes of every secureFile call, by file id
  cio,              \* the chunked-string experiment: input, ciphertext, output
  ops,              \* FileService.activeOperations, by operation id (= file id)
  cancelled,        \* FileService.cancelledOperations
  cleanup,          \* the pending timeouts that remove an operation from the maps
  appState,         \* what the host reports: the app is "active" or in the "background"
  other,            \* a second FileService call, suspended at an await while proc runs
  bg,               \* FileService's background-service bookkeeping and the service itself
  journal,          \* history: the ids of the stores that completed, in that order,
                    \* less those a deleteSecureFile that returned true has removed
  midLock           \* history: lock() has run between two chunk iterations of the call
                    \* in progress, and no chunk iteration has completed since

vars == <<masterKey, failedAttempts, inactivityTimer, keychain, storage, saltCtr,
          last, streak, relock, chg, disk, fileCtr, proc, plain, cio,
          ops, cancelled, cleanup, appState, other, bg, journal, midLock>>

secVars == <<masterKey, failedAttempts, inactivityTimer, keychain, storage, saltCtr>>
fileVars == <<disk, fileCtr, proc, plain>>
opVars == <<ops, cancelled, cleanup>>
concVars == <<other, bg, journal, midLock>>

-----------------------------------------------------------------------------
(* Bounds of the model *)

NumPasswords == 2
MaxSalts == 2
MaxCount == 6       \* verifyPassword is not called with failedAttempts at MaxCount
BlockSize == 2      \* the AES block (16 bytes), scaled
StrChunkSize == 2   \* CHUNK_SIZE of encryptDataChunked (500000 bytes), scaled
MaxStrLen == 5      \* longest string given to encryptDataChunked
FileChunkSize == 2  \* CHUNK_SIZE of FileService (512 KiB), scaled
ThumbSize == 3      \* bytes read for a thumbnail (50000), scaled
MaxLen == 5         \* longest source file
MaxFiles == 2       \* file ids: files secured in one run when calls overlap
MaxSerial == 1      \* files secured in one run when one call is made at a time
MaxChanges == 2     \* password changes made from the settings screen

Passwords == 1..NumPasswords

(* Program constants *)

MAX_FAILED_ATTEMPTS == 5

-----------------------------------------------------------------------------
(* Secrets.  A secret is what a PBKDF2 call or randomBytes produced, with   *)
(* the encoding it is held in: a Buffer ("raw") or its hex string ("hex").  *)

NULL == [t |-> "none", p |-> 0, s |-> 0, enc |-> "raw"]

\* Buffer.toString('hex')
ToHex(b) == [b EXCEPT !.enc = "hex"]

\* Buffer.from(str, 'hex')
FromHex(h) == [h EXCEPT !.enc = "raw"]

\* pbkdf2Sync(password, salt, 5000, 32, 'sha1').toString('hex')
hashPassword(password, salt) ==
  ToHex([t |-> "hash", p |-> password, s |-> salt.s, enc |-> "raw"])

\* The n-th value of Crypto.randomBytes(16).toString('hex'): never repeats
generateSalt(n) == ToHex([t |-> "salt", p |-> 0, s |-> n, enc |-> "raw"])

\* pbkdf2Sync(password, 'ilocker-master-key-salt', 5000, 32, 'sha1')
DeriveMasterKey(password) == [t |-> "mk", p |-> password, s |-> 0, enc |-> "raw"]

-----------------------------------------------------------------------------
(* The state of SecurityService and of the two stores it writes, as one     *)
(* record, so that a handler is a function from state to state and result.  *)
(* f is the set of Keychain call sites that throw during the call.          *)

FaultSites == {"getHash", "getHashFb", "getSalt", "getInetSalt",
               "setHash", "setHashFb", "setSalt", "setSaltFb",
               "setMaster", "setMasterFb", "getMaster", "getMasterFb",
               "resetHash", "resetHashFb", "resetMaster"}

EmptyKeychain ==
  [password |-> NULL, salt |-> NULL, masterkey |-> NULL, default |-> NULL, inet |-> NULL]

EmptyStorage == [password_salt |-> NULL, password_set |-> FALSE, files |-> <<>>]

St == [mk |-> masterKey, fa |-> failedAttempts, timer |-> inactivityTimer,
       kc |-> keychain, store |-> storage, salts |-> saltCtr]

clearInactivityTimer(st) == [st EXCEPT !.timer = FALSE]

startInactivityTimer(st) == [clearInactivityTimer(st) EXCEPT !.timer = TRUE]

resetInactivityTimer_always(st) == startInactivityTimer(st)

resetInactivityTimer(st) == IF st.mk # NULL THEN startInactivityTimer(st) ELSE st

lock_keepsTimer(st) == [st EXCEPT !.mk = NULL]

lock(st) == clearInactivityTimer([st EXCEPT !.mk = NULL])

\* Keychain.getGenericPassword({service}) with its fallback to the default
\* service; "threw" when both calls throw
ReadGeneric(st, f, site, siteFb, service) ==
  IF site \notin f THEN [threw |-> FALSE, cred |-> st.kc[service]]
  ELSE IF siteFb \notin f THEN [threw |-> FALSE, cred |-> st.kc.default]
  ELSE [threw |-> TRUE, cred |-> NULL]

isPasswordSet(st, f) ==
  LET r == ReadGeneric(st, f, "getHash", "getHashFb", "password")
  IN IF r.threw THEN [st |-> st, ret |-> st.store.password_set]
     ELSE IF r.cred # NULL
          THEN [st |-> [st EXCEPT !.store.password_set = TRUE], ret |-> TRUE]
          ELSE [st |-> st, ret |-> FALSE]

generateMasterKey(st, password, f) ==
  IF st.mk # NULL THEN [st |-> st, threw |-> FALSE]
  ELSE LET key == DeriveMasterKey(password)
           s1 == [st EXCEPT !.mk = key]
       IN IF "setMaster" \notin f
          THEN [st |-> [s1 EXCEPT !.kc.masterkey = ToHex(key)], threw |-> FALSE]
          ELSE IF "setMasterFb" \notin f
          THEN [st |-> [s1 EXCEPT !.kc.default = ToHex(key)], threw |-> FALSE]
          ELSE [st |-> s1, threw |-> TRUE]

restoreMasterKey_noTimer(st, f) ==
  LET r == ReadGeneric(st, f, "getMaster", "getMasterFb", "masterkey")
  IN IF ~r.threw /\ r.cred # NULL
     THEN [st |-> [st EXCEPT !.mk = FromHex(r.cred)], ret |-> TRUE]
     ELSE [st |-> st, ret |-> FALSE]

restoreMasterKey(st, f) ==
  LET r == ReadGeneric(st, f, "getMaster", "getMasterFb", "masterkey")
  IN IF ~r.threw /\ r.cred # NULL
     THEN [st |-> startInactivityTimer([st EXCEPT !.mk = FromHex(r.cred)]), ret |-> TRUE]
     ELSE [st |-> st, ret |-> FALSE]

wipeAllKeys_keepsHash(st, f) ==
  [st EXCEPT !.kc.masterkey = NULL, !.store = EmptyStorage, !.mk = NULL, !.fa = 0]

wipeAllKeys(st, f) ==
  IF "resetHash" \in f /\ "resetHashFb" \in f THEN st
  ELSE LET s1 == IF "resetHash" \notin f THEN [st EXCEPT !.kc.password = NULL]
                 ELSE [st EXCEPT !.kc.default = NULL]
           s2 == IF "resetMaster" \notin f THEN [s1 EXCEPT !.kc.masterkey = NULL] ELSE s1
       IN [s2 EXCEPT !.store = EmptyStorage, !.mk = NULL, !.fa = 0]

\* verifyPassword, lines 231-257: the salt from storage, else from the
\* Keychain (cached in storage when found)
LoadSalt(st, f) ==
  IF st.store.password_salt # NULL THEN [st |-> st, salt |-> st.store.password_salt]
  ELSE LET found == IF "getSalt" \notin f THEN st.kc.salt
                    ELSE IF "getInetSalt" \notin f THEN st.kc.inet
                    ELSE NULL
       IN IF found # NULL
          THEN [st |-> [st EXCEPT !.store.password_salt = found], salt |-> found]
          ELSE [st |-> st, salt |-> NULL]

\* The mismatch branch of verifyPassword, lines 270-274
CountFailure_gt(st, f) ==
  LET s1 == [st EXCEPT !.fa = @ + 1]
  IN IF s1.fa > MAX_FAILED_ATTEMPTS
     THEN [st |-> wipeAllKeys(s1, f), wiped |-> TRUE, cnt |-> s1.fa]
     ELSE [st |-> s1, wiped |-> FALSE, cnt |-> s1.fa]

CountFailure(st, f) ==
  LET s1 == [st EXCEPT !.fa = @ + 1]
  IN IF s1.fa >= MAX_FAILED_ATTEMPTS
     THEN [st |-> wipeAllKeys(s1, f), wiped |-> TRUE, cnt |-> s1.fa]
     ELSE [st |-> s1, wiped |-> FALSE, cnt |-> s1.fa]

\* The match branch of verifyPassword, lines 265-268
AcceptPassword(st, password, f) ==
  LET g == generateMasterKey([st EXCEPT !.fa = 0], password, f)
  IN IF g.threw THEN [st |-> g.st, ret |-> FALSE]
     ELSE [st |-> startInactivityTimer(g.st), ret |-> TRUE]

\* ret: what the call returns; cmp: "match", "mismatch", or "none" when the
\* call returned before comparing; wiped: wipeAllKeys was invoked; cnt: the
\* counter right after the increment
verifyPassword(st, password, f) ==
  LET r == ReadGeneric(st, f, "getHash", "getHashFb", "password")
      none == [ret |-> FALSE, cmp |-> "none", wiped |-> FALSE, cnt |-> st.fa]
  IN IF r.threw \/ r.cred = NULL THEN [st |-> st] @@ none
     ELSE LET l == LoadSalt(st, f)
          IN IF l.salt = NULL THEN [st |-> l.st] @@ none
             ELSE IF hashPassword(password, l.salt) = r.cred
             THEN LET a == AcceptPassword(l.st, password, f)
                  IN [st |-> a.st, ret |-> a.ret, cmp |-> "match",
                      wiped |-> FALSE, cnt |-> a.st.fa]
             ELSE LET c == CountFailure(l.st, f)
                  IN [st |-> c.st, ret |-> FALSE, cmp |-> "mismatch",
                      wiped |-> c.wiped, cnt |-> c.cnt]

\* the hash is written on first setup only
setPassword_keepsHash(st, password, f) ==
  LET salt == generateSalt(st.salts + 1)
      s1 == [st EXCEPT !.salts = @ + 1,
                       !.kc.password = IF @ = NULL THEN hashPassword(password, salt) ELSE @,
                       !.kc.salt = salt,
                       !.store.password_salt = salt, !.store.password_set = TRUE]
  IN generateMasterKey(s1, password, f)

setPassword(st, password, f) ==
  LET salt == generateSalt(st.salts + 1)
      hashed == hashPassword(password, salt)
      s0 == [st EXCEPT !.salts = @ + 1]
      failed(s) == [st |-> s, threw |-> TRUE]
  IN IF "setHash" \in f /\ "setHashFb" \in f THEN failed(s0)
     ELSE LET s1 == IF "setHash" \notin f THEN [s0 EXCEPT !.kc.password = hashed]
                    ELSE [s0 EXCEPT !.kc.default = hashed]
          IN IF "setSalt" \in f /\ "setSaltFb" \in f THEN failed(s1)
             ELSE LET s2 == IF "setSalt" \notin f THEN [s1 EXCEPT !.kc.salt = salt]
                            ELSE [s1 EXCEPT !.kc.inet = salt]
                      s3 == [s2 EXCEPT !.store.password_salt = salt,
                                       !.store.password_set = TRUE]
                  IN generateMasterKey(s3, password, f)

\* changePassword_noCheck sets the new password whatever verifyPassword said
changePassword_noCheck(st, oldPassword, newPassword, f) ==
  LET v == verifyPassword(st, oldPassword, f)
      s == setPassword(v.st, newPassword, f)
  IN [st |-> s.st, ret |-> IF ~v.ret THEN "false" ELSE IF s.threw THEN "threw" ELSE "true",
      wiped |-> v.wiped]

\* ret is "true", "false", or "threw" when setPassword threw
changePassword(st, oldPassword, newPassword, f) ==
  LET v == verifyPassword(st, oldPassword, f)
  IN IF ~v.ret THEN [st |-> v.st, ret |-> "false", wiped |-> v.wiped]
     ELSE LET s == setPassword(v.st, newPassword, f)
          IN [st |-> s.st, ret |-> IF s.threw THEN "threw" ELSE "true", wiped |-> FALSE]

-----------------------------------------------------------------------------
(* The cipher.  A Buffer is a sequence of bytes (integers).  AES-256-CBC    *)
(* with PKCS#7 padding is symbolic: byte n of a ciphertext is a cell naming *)
(* the master key, the id the file key was derived from, the id the IV was  *)
(* derived from, n, and the padded plaintext byte it carries.               *)

\* ChunkId_noIndex names every chunk of a file alike
ChunkId_noIndex(fileId, i) == [f |-> fileId, part |-> "chunk", i |-> 0]

\* The ids handed to the cipher: `${fileId}_chunk_${i}`, `${fileId}_thumb`, fileId
ChunkId(fileId, i) == [f |-> fileId, part |-> "chunk", i |-> i]
ThumbId(fileId) == [f |-> fileId, part |-> "thumb", i |-> 0]
WholeId(fileId) == [f |-> fileId, part |-> "file", i |-> 0]
NoId == [f |-> 0, part |-> "none", i |-> 0]

\* A byte of a file that is no ciphertext (a byte of a length header)
RawByte(v) == [mk |-> NULL, id |-> NoId, iv |-> NoId, n |-> 0, b |-> v]

\* deriveFileKey_noCheck derives a key from whatever masterKey holds
deriveFileKey_noCheck(st, fileId) == [threw |-> FALSE, key |-> [mk |-> st.mk, id |-> fileId]]

\* Crypto.createHmac('sha256', this.masterKey).update(fileId).digest()
deriveFileKey(st, fileId) ==
  [threw |-> st.mk = NULL, key |-> [mk |-> st.mk, id |-> fileId]]

\* Crypto.createHmac('sha256', 'ilocker-iv-salt').update(fileId).digest().subarray(0, 16)
generateDeterministicIV(fileId) == fileId

Pkcs7Pad(data) ==
  LET k == BlockSize - (Len(data) % BlockSize)
  IN data \o [i \in 1..k |-> k]

\* cipher.update(data) ++ cipher.final()
CbcEncrypt(key, iv, data) ==
  LET padded == Pkcs7Pad(data)
  IN [n \in 1..Len(padded) |->
        [mk |-> key.mk, id |-> key.id, iv |-> iv, n |-> n, b |-> padded[n]]]

Genuine(key, iv, ct) ==
  \A n \in 1..Len(ct) :
     /\ ct[n].mk = key.mk /\ ct[n].id = key.id /\ ct[n].iv = iv /\ ct[n].n = n

\* decipher.update(ct) ++ decipher.final().  A ciphertext that is empty or
\* no whole number of blocks is refused.  A ciphertext made under this key
\* and IV yields its padded plaintext, whose padding is then checked and
\* removed.  Any other ciphertext decrypts to bytes nobody chose (-1): the
\* padding check refuses them (g = "throw") or, when they happen to end in
\* 01, lets them through (g = "accept").
CbcDecrypt(key, iv, ct, g) ==
  IF Len(ct) = 0 \/ Len(ct) % BlockSize # 0 THEN [threw |-> TRUE, out |-> <<>>]
  ELSE IF Genuine(key, iv, ct)
  THEN LET k == ct[Len(ct)].b
       IN IF /\ k \in 1..BlockSize
             /\ \A i \in (Len(ct) - k + 1)..Len(ct) : ct[i].b = k
          THEN [threw |-> FALSE, out |-> [i \in 1..(Len(ct) - k) |-> ct[i].b]]
          ELSE [threw |-> TRUE, out |-> <<>>]
  ELSE IF g = "accept"
  THEN [threw |-> FALSE, out |-> [i \in 1..(Len(ct) - 1) |-> -1]]
  ELSE [threw |-> TRUE, out |-> <<>>]

GarbageChoices == {"throw", "accept"}

encryptBuffer(st, data, fileId) ==
  LET s1 == resetInactivityTimer(st)
      k == deriveFileKey(s1, fileId)
  IN IF k.threw THEN [st |-> s1, threw |-> TRUE, out |-> <<>>]
     ELSE [st |-> s1, threw |-> FALSE,
           out |-> CbcEncrypt(k.key, generateDeterministicIV(fileId), data)]

decryptBuffer(st, encryptedData, fileId, g) ==
  LET s1 == resetInactivityTimer(st)
      k == deriveFileKey(s1, fileId)
  IN IF k.threw THEN [st |-> s1, threw |-> TRUE, out |-> <<>>]
     ELSE [st |-> s1] @@ CbcDecrypt(k.key, generateDeterministicIV(fileId), encryptedData, g)

-----------------------------------------------------------------------------
(* Strings.  A string is a sequence of characters; a character is a record  *)
(* [c, v]: the letters "a" (one UTF-8 byte) and "e'" (two UTF-8 bytes),     *)
(* U+FFFD, a base64 character carrying the byte or cell v it encodes, or    *)
(* the delimiter '|||CHUNK|||', which holds no base64 character.            *)

Chr(c) == [c |-> c, v |-> 0]
B64Chr(v) == [c |-> "b64", v |-> v]
Delim == Chr("|||CHUNK|||")

\* The ASCII code of the base64 character carrying the byte v
B64Ascii == 1000

\* Buffer.from(data, 'utf8')
RECURSIVE Utf8Encode(_)
Utf8Encode(str) ==
  IF str = <<>> THEN <<>>
  ELSE LET ch == Head(str)
           bytes == IF ch.c = "a" THEN <<97>>
                    ELSE IF ch.c = "e'" THEN <<195, 169>>
                    ELSE IF ch.c = "b64" THEN <<B64Ascii + ch.v>>
                    ELSE <<239, 191, 189>>
       IN bytes \o Utf8Encode(Tail(str))

\* Buffer.toString('utf8'): a byte sequence that is no UTF-8 becomes U+FFFD
RECURSIVE Utf8Decode(_)
Utf8Decode(bytes) ==
  IF bytes = <<>> THEN <<>>
  ELSE LET b == Head(bytes)
       IN IF b = 97 THEN <<Chr("a")>> \o Utf8Decode(Tail(bytes))
          ELSE IF b >= B64Ascii THEN <<B64Chr(b - B64Ascii)>> \o Utf8Decode(Tail(bytes))
          ELSE IF b = 195 /\ Len(bytes) >= 2 /\ bytes[2] = 169
               THEN <<Chr("e'")>> \o Utf8Decode(Tail(Tail(bytes)))
          ELSE <<Chr("U+FFFD")>> \o Utf8Decode(Tail(bytes))

\* Buffer.toString('base64')
Base64Encode(buf) == [i \in 1..Len(buf) |-> B64Chr(buf[i])]

\* Buffer.from(str, 'base64'): characters outside the base64 alphabet are skipped
RECURSIVE Base64Decode(_)
Base64Decode(str) ==
  IF str = <<>> THEN <<>>
  ELSE IF Head(str).c = "b64" THEN <<Head(str).v>> \o Base64Decode(Tail(str))
  ELSE Base64Decode(Tail(str))

encryptData(st, data, fileId) ==
  LET e == encryptBuffer(st, Utf8Encode(data), fileId)
  IN [st |-> e.st, threw |-> e.threw, out |-> Base64Encode(e.out)]

decryptData(st, encryptedBase64, fileId, g) ==
  LET d == decryptBuffer(st, Base64Decode(encryptedBase64), fileId, g)
  IN [st |-> d.st, threw |-> d.threw, out |-> Utf8Decode(d.out)]

-----------------------------------------------------------------------------
(* encryptDataChunked / decryptDataChunked.  The master key is read by each *)
(* chunk's encryptBuffer/decryptBuffer; taken as one step, the loops see    *)
(* one master key.                                                          *)

Min(a, b) == IF a < b THEN a ELSE b

\* Array.join('|||CHUNK|||')
RECURSIVE Join(_)
Join(parts) ==
  IF parts = <<>> THEN <<>>
  ELSE IF Len(parts) = 1 THEN parts[1]
  ELSE parts[1] \o <<Delim>> \o Join(Tail(parts))

\* String.includes('|||CHUNK|||')
HasDelim(str) == \E i \in 1..Len(str) : str[i].c = Delim.c

\* String.split('|||CHUNK|||')
RECURSIVE Split(_, _)
Split(str, cur) ==
  IF str = <<>> THEN <<cur>>
  ELSE IF Head(str).c = Delim.c THEN <<cur>> \o Split(Tail(str), <<>>)
  ELSE Split(Tail(str), Append(cur, Head(str)))

RECURSIVE Concat(_)
Concat(bufs) == IF bufs = <<>> THEN <<>> ELSE Head(bufs) \o Concat(Tail(bufs))

encryptDataChunked(st, data, fileId) ==
  LET s0 == resetInactivityTimer(st)
      dataBuffer == Utf8Encode(data)
      totalChunks == (Len(dataBuffer) + StrChunkSize - 1) \div StrChunkSize
      chunk(i) == SubSeq(dataBuffer, i * StrChunkSize + 1,
                         Min(i * StrChunkSize + StrChunkSize, Len(dataBuffer)))
      enc == [k \in 1..totalChunks |-> encryptBuffer(s0, chunk(k - 1), ChunkId(fileId, k - 1))]
  IN IF \E k \in 1..totalChunks : enc[k].threw
     THEN [st |-> s0, threw |-> TRUE, out |-> <<>>]
     ELSE [st |-> s0, threw |-> FALSE,
           out |-> Join([k \in 1..totalChunks |-> Base64Encode(enc[k].out)])]

decryptDataChunked(st, encryptedData, fileId, g) ==
  LET s0 == resetInactivityTimer(st)
  IN IF ~HasDelim(encryptedData) THEN decryptData(s0, encryptedData, WholeId(fileId), g)
     ELSE LET chunks == Split(encryptedData, <<>>)
              dec == [k \in 1..Len(chunks) |->
                        decryptBuffer(s0, Base64Decode(chunks[k]), ChunkId(fileId, k - 1), g)]
          IN IF \E k \in 1..Len(chunks) : dec[k].threw
             THEN [st |-> s0, threw |-> TRUE, out |-> <<>>]
             ELSE [st |-> s0, threw |-> FALSE,
                   out |-> Utf8Decode(Concat([k \in 1..Len(chunks) |-> dec[k].out]))]

-----------------------------------------------------------------------------
(* The calls on SecurityService.  last records the call and its result;     *)
(* streak, relock and chg are history variables read by the properties.     *)

\* was: failedAttempts when the call was made
Call(op, pw, pw2, ret, cmp, wiped, cnt) ==
  [op |-> op, pw |-> pw, pw2 |-> pw2, ret |-> ret, cmp |-> cmp, wiped |-> wiped,
   cnt |-> cnt, was |-> failedAttempts]

Plain(op, ret) == Call(op, 0, 0, ret, "none", FALSE, 0)

Bool(b) == IF b THEN "true" ELSE "false"

Install(st) ==
  /\ masterKey' = st.mk
  /\ failedAttempts' = st.fa
  /\ inactivityTimer' = st.timer
  /\ keychain' = st.kc
  /\ storage' = st.store
  /\ saltCtr' = st.salts

\* mismatching verifyPassword calls in a row since the process started, the
\* last match or the last wipe
StreakAfter(cmp) ==
  IF cmp = "match" THEN 0
  ELSE IF cmp = "mismatch" THEN (IF streak >= MAX_FAILED_ATTEMPTS THEN 1 ELSE streak + 1)
  ELSE streak

NoChange == [old |-> 0, new |-> 0]

\* "locked" once lock() has returned; "setpw" once setPassword has been
\* called since; "no" once verifyPassword has matched or restoreMasterKey
\* has returned true
RelockAfterSetPassword == IF relock = "no" THEN "no" ELSE "setpw"

SetPassword(password, f) ==
  /\ saltCtr < MaxSalts
  /\ LET r == setPassword(St, password, f)
     IN /\ Install(r.st)
        /\ last' = Call("setPassword", password, 0, IF r.threw THEN "threw" ELSE "void",
                        "none", FALSE, 0)
  /\ relock' = RelockAfterSetPassword
  /\ chg' = NoChange
  /\ UNCHANGED <<streak, fileVars, cio, opVars, appState, concVars>>

ChangePassword(oldPassword, newPassword, f) ==
  /\ saltCtr < MaxSalts
  /\ failedAttempts < MaxCount
  /\ LET v == verifyPassword(St, oldPassword, f)
         r == changePassword(St, oldPassword, newPassword, f)
     IN /\ Install(r.st)
        /\ last' = Call("changePassword", oldPassword, newPassword, r.ret,
                        v.cmp, r.wiped, v.cnt)
        /\ streak' = StreakAfter(v.cmp)
        /\ relock' = IF v.cmp = "match" THEN "no" ELSE relock
        /\ chg' = IF r.ret = "true" /\ oldPassword # newPassword
                  THEN [old |-> oldPassword, new |-> newPassword]
                  ELSE IF r.ret = "false" /\ ~r.wiped THEN chg ELSE NoChange
  /\ UNCHANGED <<fileVars, cio, opVars, appState, concVars>>

VerifyPassword(password, f) ==
  /\ failedAttempts < MaxCount
  /\ LET r == verifyPassword(St, password, f)
     IN /\ Install(r.st)
        /\ last' = Call("verifyPassword", password, 0, Bool(r.ret), r.cmp, r.wiped, r.cnt)
        /\ streak' = StreakAfter(r.cmp)
        /\ relock' = IF r.cmp = "match" THEN "no" ELSE relock
        /\ chg' = IF r.wiped THEN NoChange ELSE chg
  /\ UNCHANGED <<fileVars, cio, opVars, appState, concVars>>

RestoreMasterKey(f) ==
  /\ LET r == restoreMasterKey(St, f)
     IN /\ Install(r.st)
        /\ last' = Plain("restoreMasterKey", Bool(r.ret))
        /\ relock' = IF r.ret THEN "no" ELSE relock
  /\ UNCHANGED <<streak, chg, fileVars, cio, opVars, appState, concVars>>

IsPasswordSet(f) ==
  /\ LET r == isPasswordSet(St, f)
     IN /\ Install(r.st)
        /\ last' = Plain("isPasswordSet", Bool(r.ret))
  /\ UNCHANGED <<streak, relock, chg, fileVars, cio, opVars, appState, concVars>>

\* the call in progress has finished a chunk iteration and has more to do
BetweenChunks ==
  /\ proc.pc \in {"encrypting", "decrypting"}
  /\ proc.chunkIndex > 0
  /\ proc.offset < proc.size

Lock ==
  /\ Install(lock(St))
  /\ last' = Plain("lock", "void")
  /\ relock' = "locked"
  /\ midLock' = (midLock \/ BetweenChunks)
  /\ UNCHANGED <<streak, chg, fileVars, cio, opVars, appState, other, bg, journal>>

\* The callback of the timeout set by startInactivityTimer
TimerFire ==
  /\ inactivityTimer
  /\ Install(lock(St))
  /\ last' = Plain("timer", "void")
  /\ relock' = "locked"
  /\ midLock' = (midLock \/ BetweenChunks)
  /\ UNCHANGED <<streak, chg, fileVars, cio, opVars, appState, other, bg, journal>>

ResetInactivityTimer ==
  /\ Install(resetInactivityTimer(St))
  /\ last' = Plain("resetInactivityTimer", "void")
  /\ UNCHANGED <<streak, relock, chg, fileVars, cio, opVars, appState, concVars>>

\* The buffers, strings and ids the cipher calls of the key-management model get
CipherIds == {WholeId(1), ChunkId(1, 0)}
CipherBuffers == {<<>>, <<7, 8>>}
CipherStrings == {<<>>, <<Chr("a")>>, <<Chr("e'"), Chr("a")>>}
CipherTexts ==
  {CbcEncrypt([mk |-> DeriveMasterKey(p), id |-> i], generateDeterministicIV(i), d) :
     p \in Passwords, i \in CipherIds, d \in {<<7, 8>>}}

\* A ciphertext one byte of which was changed: byte n is no longer the byte
\* any encryption produced
Tamper(ct, n) == [ct EXCEPT ![n] = RawByte(-1)]

\* the ciphertexts above with their first or their last byte changed
TamperedTexts == UNION {{Tamper(c, 1), Tamper(c, Len(c))} : c \in CipherTexts}

EncryptBuffer(data, fileId) ==
  /\ LET r == encryptBuffer(St, data, fileId)
     IN /\ Install(r.st)
        /\ last' = Plain("encryptBuffer", IF r.threw THEN "threw" ELSE "ok")
  /\ UNCHANGED <<streak, relock, chg, fileVars, cio, opVars, appState, concVars>>

DecryptBuffer(encryptedData, fileId, g) ==
  /\ LET r == decryptBuffer(St, encryptedData, fileId, g)
     IN /\ Install(r.st)
        /\ last' = Plain("decryptBuffer", IF r.threw THEN "threw" ELSE "ok")
  /\ UNCHANGED <<streak, relock, chg, fileVars, cio, opVars, appState, concVars>>

EncryptData(data, fileId) ==
  /\ LET r == encryptData(St, data, fileId)
     IN /\ Install(r.st)
        /\ last' = Plain("encryptData", IF r.threw THEN "threw" ELSE "ok")
  /\ UNCHANGED <<streak, relock, chg, fileVars, cio, opVars, appState, concVars>>

DecryptData(encryptedBase64, fileId, g) ==
  /\ LET r == decryptData(St, encryptedBase64, fileId, g)
     IN /\ Install(r.st)
        /\ last' = Plain("decryptData", IF r.threw THEN "threw" ELSE "ok")
  /\ UNCHANGED <<streak, relock, chg, fileVars, cio, opVars, appState, concVars>>

\* The process is killed and started again: the fields of the singleton are
\* initialised anew, the Keychain and MMKV keep what they hold
Restart ==
  /\ masterKey' = NULL
  /\ failedAttempts' = 0
  /\ inactivityTimer' = FALSE
  /\ last' = Plain("restart", "void")
  /\ streak' = 0
  /\ relock' = "no"
  /\ UNCHANGED <<keychain, storage, saltCtr, chg, fileVars, cio, opVars, appState, concVars>>

-----------------------------------------------------------------------------
(* FileService (streaming format, version 2).  A file on disk is [ex, data]:*)
(* whether it exists and what it holds.  RNFS moves bytes as base64 text;   *)
(* RNFS.read followed by Buffer.from(.., 'base64'), and toString('base64')  *)
(* followed by RNFS.appendFile(.., 'base64'), are taken together as reading *)
(* and appending bytes.                                                     *)

FileIds == 1..MaxFiles

NoFile == [ex |-> FALSE, data |-> <<>>]
EmptyFile == [ex |-> TRUE, data |-> <<>>]

\* SECURE_DIR/<id>.enc, THUMBNAIL_DIR/<id>.thumb, CACHE_DIR/<id>_decrypted.<ext>
EmptyDisk == [enc |-> [id \in FileIds |-> NoFile],
              thumb |-> [id \in FileIds |-> NoFile],
              cache |-> [id \in FileIds |-> NoFile]]

\* A percentage is the fraction n/d
Pct(n, d) == [n |-> n, d |-> d]
PctLeq(a, b) == a.n * b.d <= b.n * a.d
PctMin(a, b) == IF PctLeq(a, b) THEN a ELSE b

\* progress is the last value given to onProgress, 0 before the first
IdleProc == [pc |-> "idle", kind |-> "none", id |-> 0, src |-> <<>>, type |-> "none",
             offset |-> 0, chunkIndex |-> 0, size |-> 0, ret |-> "none",
             fresh |-> FALSE, locked |-> FALSE, content |-> <<>>,
             progress |-> Pct(0, 1)]

\* An entry of activeOperations; active is FALSE when the map has no entry.
\* cancelAt is history: the number of chunks secureFile had finished when
\* cancelOperation was called during its chunk loop, -1 if it never was.
NoOp == [active |-> FALSE, status |-> "none", progress |-> Pct(0, 1), error |-> "none",
         cancelAt |-> -1]

\* activeBackgroundOperations and backgroundServiceRunning; starting and
\* stopping are the BackgroundService.start() and .stop() promises that have
\* not settled; service is the foreground service itself, which start()
\* and stop() switch when they are called.
NoBg == [activeBackgroundOperations |-> 0, backgroundServiceRunning |-> FALSE,
         starting |-> 0, stopping |-> FALSE, service |-> "stopped"]

\* startBackgroundService up to its await
startBackgroundService(b) ==
  IF b.backgroundServiceRunning THEN b
  ELSE [b EXCEPT !.starting = @ + 1, !.service = "running"]

\* stopBackgroundService up to its await
stopBackgroundService(b) ==
  IF ~b.backgroundServiceRunning THEN b
  ELSE [b EXCEPT !.stopping = TRUE, !.service = "stopped"]

\* secureFile, lines 277-278
CountOperation(b) ==
  startBackgroundService([b EXCEPT !.activeBackgroundOperations = @ + 1])

\* FinallySecureFile_keeps leaves the counter as it is
FinallySecureFile_keeps(b) == b

\* the finally block of secureFile, lines 387-388
FinallySecureFile(b) ==
  LET c == [b EXCEPT !.activeBackgroundOperations = @ - 1]
  IN IF c.activeBackgroundOperations = 0 THEN stopBackgroundService(c) ELSE c

updateOperation(o, operationId, updates) ==
  IF o[operationId].active THEN [o EXCEPT ![operationId] = updates @@ @] ELSE o

\* the finally block of secureFile: setTimeout(() => activeOperations.delete(id), 5000)
AfterSecureFile(operationId) == cleanup \cup {<<"secureFile", operationId>>}

cancelOperation(operationId) ==
  /\ ops[operationId].active
  /\ cancelled' = cancelled \cup {operationId}
  /\ ops' = LET inLoop == /\ proc.pc = "encrypting" /\ proc.id = operationId
                          /\ proc.size > 0 /\ ops[operationId].cancelAt = -1
                o == updateOperation(ops, operationId,
                                     [status |-> "failed", error |-> "Cancelled by user"])
            IN IF inLoop THEN [o EXCEPT ![operationId].cancelAt = proc.chunkIndex] ELSE o
  /\ cleanup' = cleanup \cup {<<"cancelOperation", operationId>>}
  /\ UNCHANGED <<secVars, last, streak, relock, chg, fileVars, cio, appState, concVars>>

\* The callback of a timeout set by cancelOperation (2 s) or by secureFile (5 s)
CleanupTimer(t) ==
  /\ t \in cleanup
  /\ cleanup' = cleanup \ {t}
  /\ ops' = [ops EXCEPT ![t[2]] = [NoOp EXCEPT !.cancelAt = ops[t[2]].cancelAt]]
  /\ cancelled' = IF t[1] = "cancelOperation" THEN cancelled \ {t[2]} ELSE cancelled
  /\ UNCHANGED <<secVars, last, streak, relock, chg, fileVars, cio, appState, concVars>>

\* The source files: n bytes, all different
Source(n) == [i \in 1..n |-> 10 + i]
Sources == {Source(n) : n \in 0..MaxLen}

FileTypes == {"image/jpeg", "application/pdf"}

HEADER_LEN == 4

\* lengthHeader.writeUInt32BE(n, 0)
writeUInt32BE(n) ==
  <<RawByte((n \div 16777216) % 256), RawByte((n \div 65536) % 256),
    RawByte((n \div 256) % 256), RawByte(n % 256)>>

\* headerBuf.readUInt32BE(0): a RangeError on fewer than 4 bytes
readUInt32BE(buf) ==
  IF Len(buf) < HEADER_LEN THEN [threw |-> TRUE, n |-> 0]
  ELSE [threw |-> FALSE,
        n |-> buf[1].b * 16777216 + buf[2].b * 65536 + buf[3].b * 256 + buf[4].b]

\* RNFS.read(path, length, offset, 'base64') decoded
ReadBytes(file, length, offset) ==
  SubSeq(file.data, offset + 1, Min(offset + length, Len(file.data)))

\* initializeSecureStorage: the directories exist afterwards and CACHE_DIR is empty
initializeSecureStorage(d) == [d EXCEPT !.cache = [id \in FileIds |-> NoFile]]

FindMetadata(files, fileId) ==
  LET hits == {i \in 1..Len(files) : files[i].id = fileId}
  IN IF hits = {} THEN [found |-> FALSE, i |-> 0]
     ELSE [found |-> TRUE, i |-> CHOOSE i \in hits : \A j \in hits : i <= j]

\* storeFileMetadata_stale writes the collection without reading it first
storeFileMetadata_stale(st, metadata) == [st EXCEPT !.store.files = <<metadata>>]

\* storeFileMetadata
storeFileMetadata(st, metadata) == [st EXCEPT !.store.files = Append(@, metadata)]

\* secureFile up to the chunk loop (lines 264-308)
SecureFileStart(content, fileType) ==
  /\ proc.pc = "idle"
  /\ fileCtr < MaxFiles
  /\ LET fileId == fileCtr + 1
     IN /\ fileCtr' = fileId
        /\ disk' = [initializeSecureStorage(disk) EXCEPT !.enc[fileId] = EmptyFile]
        /\ proc' = [IdleProc EXCEPT !.pc = "encrypting", !.kind = "store", !.id = fileId,
                                    !.src = content, !.type = fileType,
                                    !.size = Len(content)]
        /\ plain' = [plain EXCEPT ![fileId] = content]
        /\ ops' = [ops EXCEPT ![fileId] = [NoOp EXCEPT !.active = TRUE,
                                                        !.status = "processing"]]
        /\ bg' = CountOperation(bg)
        /\ midLock' = FALSE
  /\ UNCHANGED <<secVars, last, streak, relock, chg, cio, cancelled, cleanup, appState, other,
                 journal>>

\* Packet_bare leaves out the length header
Packet_bare(encryptedBuffer) == encryptedBuffer

\* the packet of one chunk: [4 bytes length][encrypted data]
Packet(encryptedBuffer) == writeUInt32BE(Len(encryptedBuffer)) \o encryptedBuffer

\* one iteration of the loop of secureFile (lines 310-341)
\* The catch and finally blocks of secureFile
SecureFileFailed(message) ==
  /\ proc' = [proc EXCEPT !.pc = "done", !.ret = "threw"]
  /\ ops' = updateOperation(ops, proc.id, [status |-> "failed", error |-> message])
  /\ cleanup' = AfterSecureFile(proc.id)
  /\ bg' = FinallySecureFile(bg)
  /\ UNCHANGED <<disk, journal, midLock>>

\* Math.min(95, (offset / fileSize) * 100)
UploadProgress(offset, fileSize) == PctMin(Pct(95, 1), Pct(offset * 100, fileSize))

SecureFileChunk ==
  /\ proc.pc = "encrypting"
  /\ proc.offset < proc.size
  /\ IF proc.id \in cancelled
     THEN /\ SecureFileFailed("Cancelled")
          /\ UNCHANGED secVars
     ELSE LET length == Min(FileChunkSize, proc.size - proc.offset)
              chunkBuffer == SubSeq(proc.src, proc.offset + 1, proc.offset + length)
              e == encryptBuffer(St, chunkBuffer, ChunkId(proc.id, proc.chunkIndex))
          IN /\ Install(e.st)
             /\ IF e.threw
                THEN SecureFileFailed("Master key not available")
                ELSE /\ disk' = [disk EXCEPT !.enc[proc.id].data = @ \o Packet(e.out)]
                     /\ proc' = [proc EXCEPT !.offset = @ + length, !.chunkIndex = @ + 1]
                     /\ ops' = updateOperation(ops, proc.id,
                                  [progress |-> UploadProgress(proc.offset + length, proc.size)])
                     /\ midLock' = FALSE
                     /\ UNCHANGED <<cleanup, bg, journal>>
  /\ UNCHANGED <<fileCtr, plain, last, streak, relock, chg, cio, cancelled, appState, other>>

\* secureFile after the loop (lines 343-381): the thumbnail of an image
\* (an encryption error is swallowed), then the metadata
SecureFileFinish ==
  /\ proc.pc = "encrypting"
  /\ proc.offset >= proc.size
  /\ LET thumbData == Base64Encode(ReadBytes([ex |-> TRUE, data |-> proc.src], ThumbSize, 0))
         t == encryptData(St, thumbData, ThumbId(proc.id))
         image == proc.type = "image/jpeg"
         stored == image /\ ~t.threw
         s1 == IF image THEN t.st ELSE St
         metadata == [id |-> proc.id, fileType |-> proc.type, size |-> proc.size,
                      encryptedThumbnail |-> stored, version |-> 2]
     IN /\ Install(storeFileMetadata(s1, metadata))
        /\ disk' = IF stored
                   THEN [disk EXCEPT !.thumb[proc.id] = [ex |-> TRUE, data |-> t.out]]
                   ELSE disk
        /\ proc' = [proc EXCEPT !.pc = "done", !.ret = "metadata"]
        /\ ops' = updateOperation(ops, proc.id,
                                  [progress |-> Pct(100, 1), status |-> "completed"])
        /\ cleanup' = AfterSecureFile(proc.id)
        /\ bg' = FinallySecureFile(bg)
        /\ journal' = Append(journal, proc.id)
  /\ UNCHANGED <<fileCtr, plain, last, streak, relock, chg, cio, cancelled, appState, other,
                 midLock>>

\* What getSecureFileUri hands back once the decrypted file is in place:
\* the URI, and for readSecureFile the content read from it
Yield(p, d) ==
  IF p.kind = "read"
  THEN [p EXCEPT !.pc = "done", !.ret = "content", !.content = d.cache[p.id].data,
                 !.progress = Pct(100, 1)]
  ELSE [p EXCEPT !.pc = "done", !.ret = "uri", !.progress = Pct(100, 1)]

\* getSecureFileUri up to the chunk loop (lines 395-414), or up to the
\* RNFS.readFile of the legacy branch (lines 440-442) for a record whose
\* version is not 2; kind is "get" for getSecureFileUri and "read" for
\* readSecureFile
GetSecureFileUriStart(fileId, kind) ==
  /\ proc.pc = "idle"
  /\ LET m == FindMetadata(storage.files, fileId)
         p == [IdleProc EXCEPT !.kind = kind, !.id = fileId, !.locked = (masterKey = NULL)]
     IN IF ~m.found
        THEN /\ proc' = [p EXCEPT !.pc = "done", !.ret = "threw"]
             /\ disk' = disk
        ELSE IF disk.cache[fileId].ex
        THEN /\ proc' = Yield(p, disk)
             /\ disk' = disk
        ELSE IF storage.files[m.i].version # 2
        THEN /\ proc' = [p EXCEPT !.pc = "legacy", !.fresh = TRUE,
                                  !.progress = IF kind = "get" THEN Pct(10, 1) ELSE @]
             /\ disk' = disk
        ELSE IF ~disk.enc[fileId].ex
        THEN /\ proc' = [p EXCEPT !.pc = "done", !.ret = "null"]
             /\ disk' = disk
        ELSE /\ disk' = [disk EXCEPT !.cache[fileId] = EmptyFile]
             /\ proc' = [p EXCEPT !.pc = "decrypting", !.fresh = TRUE,
                                  !.size = Len(disk.enc[fileId].data)]
  /\ midLock' = FALSE
  /\ UNCHANGED <<secVars, fileCtr, plain, last, streak, relock, chg, cio, opVars, appState,
                 other, bg, journal>>

\* onProgress((offset / totalSize) * 100); readSecureFile passes no callback
\* to getSecureFileUri
DownloadProgress(offset, totalSize) == Pct(offset * 100, totalSize)

\* where the next packet's ciphertext starts
AfterHeader_none(offset) == offset

AfterHeader(offset) == offset + HEADER_LEN

\* one iteration of the loop of getSecureFileUri (lines 416-439)
GetSecureFileUriChunk(g) ==
  /\ proc.pc = "decrypting"
  /\ proc.offset < proc.size
  /\ LET file == disk.enc[proc.id]
         header == readUInt32BE(ReadBytes(file, HEADER_LEN, proc.offset))
         chunkBuf == ReadBytes(file, header.n, AfterHeader(proc.offset))
         d == decryptBuffer(St, chunkBuf, ChunkId(proc.id, proc.chunkIndex), g)
     IN IF header.threw
        THEN /\ proc' = [proc EXCEPT !.pc = "done", !.ret = "null"]
             /\ UNCHANGED <<secVars, disk, midLock>>
        ELSE /\ Install(d.st)
             /\ IF d.threw
                THEN /\ proc' = [proc EXCEPT !.pc = "done", !.ret = "null"]
                     /\ UNCHANGED <<disk, midLock>>
                ELSE /\ disk' = [disk EXCEPT !.cache[proc.id] =
                                                 [ex |-> TRUE, data |-> @.data \o d.out]]
                     /\ proc' = [proc EXCEPT
                          !.offset = AfterHeader(@) + header.n,
                          !.chunkIndex = @ + 1,
                          !.progress = IF proc.kind = "get"
                                       THEN DownloadProgress(AfterHeader(proc.offset) + header.n,
                                                             proc.size)
                                       ELSE @]
                     /\ midLock' = FALSE
  /\ UNCHANGED <<fileCtr, plain, last, streak, relock, chg, cio, opVars, appState,
                 other, bg, journal>>

\* getSecureFileUri after the loop (lines 450-451)
GetSecureFileUriFinish ==
  /\ proc.pc = "decrypting"
  /\ proc.offset >= proc.size
  /\ proc' = Yield(proc, disk)
  /\ UNCHANGED <<secVars, disk, fileCtr, plain, last, streak, relock, chg, cio, opVars, appState, concVars>>

\* the legacy branch of getSecureFileUri (lines 440-447): the whole file is
\* read as text, decrypted by decryptDataChunked and written from base64
GetSecureFileUriLegacy(g) ==
  /\ proc.pc = "legacy"
  /\ LET d == decryptDataChunked(St, disk.enc[proc.id].data, proc.id, g)
     IN IF ~disk.enc[proc.id].ex
        THEN /\ proc' = [proc EXCEPT !.pc = "done", !.ret = "null"]
             /\ UNCHANGED <<secVars, disk>>
        ELSE /\ Install(d.st)
             /\ IF d.threw
                THEN /\ proc' = [proc EXCEPT !.pc = "done", !.ret = "null"]
                     /\ disk' = disk
                ELSE /\ disk' = [disk EXCEPT !.cache[proc.id] =
                                                 [ex |-> TRUE, data |-> Base64Decode(d.out)]]
                     /\ proc' = Yield(proc, disk')
  /\ UNCHANGED <<fileCtr, plain, last, streak, relock, chg, cio, opVars, appState, concVars>>

\* the caller takes the result
Return ==
  /\ proc.pc = "done"
  /\ proc' = IdleProc
  /\ UNCHANGED <<secVars, disk, fileCtr, plain, last, streak, relock, chg, cio, opVars, appState, concVars>>

\* deleteFileMetadata_keeps leaves the collection as it is
deleteFileMetadata_keeps(st, fileId) == st

\* deleteFileMetadata: getAllFileMetadata, filter, storage.set
deleteFileMetadata(st, fileId) ==
  [st EXCEPT !.store.files = SelectSeq(@, LAMBDA m : m.id # fileId)]

\* deleteSecureFile up to its first await (lines 470-473): RNFS.exists of
\* the ciphertext file is pending
DeleteSecureFileStart(fileId) ==
  /\ proc.pc = "idle"
  /\ proc' = IF FindMetadata(storage.files, fileId).found
             THEN [IdleProc EXCEPT !.pc = "existsEnc", !.kind = "delete", !.id = fileId]
             ELSE [IdleProc EXCEPT !.pc = "done", !.kind = "delete", !.id = fileId,
                                   !.ret = "false"]
  /\ UNCHANGED <<secVars, disk, fileCtr, plain, last, streak, relock, chg, cio, opVars,
                 appState, concVars>>

\* deleteSecureFile after the last unlink (lines 476-477)
DeleteSecureFileDone ==
  /\ Install(deleteFileMetadata(St, proc.id))
  /\ proc' = [proc EXCEPT !.pc = "done", !.ret = "true"]
  /\ journal' = SelectSeq(journal, LAMBDA id : id # proc.id)

\* an RNFS.exists of deleteSecureFile resolves (lines 473 and 475)
DeleteSecureFileExists ==
  /\ proc.pc \in {"existsEnc", "existsThumb"}
  /\ IF proc.pc = "existsEnc"
     THEN /\ proc' = [proc EXCEPT !.pc = IF disk.enc[proc.id].ex THEN "unlinkEnc"
                                         ELSE "existsThumb"]
          /\ UNCHANGED <<secVars, journal>>
     ELSE IF disk.thumb[proc.id].ex
     THEN /\ proc' = [proc EXCEPT !.pc = "unlinkThumb"]
          /\ UNCHANGED <<secVars, journal>>
     ELSE DeleteSecureFileDone
  /\ UNCHANGED <<disk, fileCtr, plain, last, streak, relock, chg, cio, opVars,
                 appState, other, bg, midLock>>

\* an RNFS.unlink of deleteSecureFile resolves (lines 473 and 475), or
\* rejects because the file is gone, which the catch turns into false
DeleteSecureFileUnlink ==
  /\ proc.pc \in {"unlinkEnc", "unlinkThumb"}
  /\ LET dir == IF proc.pc = "unlinkEnc" THEN "enc" ELSE "thumb"
     IN IF ~disk[dir][proc.id].ex
        THEN /\ proc' = [proc EXCEPT !.pc = "done", !.ret = "false"]
             /\ UNCHANGED <<secVars, disk, journal>>
        ELSE /\ disk' = [disk EXCEPT ![dir][proc.id] = NoFile]
             /\ IF proc.pc = "unlinkEnc"
                THEN /\ proc' = [proc EXCEPT !.pc = "existsThumb"]
                     /\ UNCHANGED <<secVars, journal>>
                ELSE DeleteSecureFileDone
  /\ UNCHANGED <<fileCtr, plain, last, streak, relock, chg, cio, opVars,
                 appState, other, bg, midLock>>

\* The event loop resumes the other pending FileService call: the call
\* that was running waits at its await.  A call that has returned waits for
\* nothing: its caller goes on before any other callback runs.
Switch ==
  /\ proc # other
  /\ proc.pc # "done"
  /\ proc' = other
  /\ other' = proc
  /\ UNCHANGED <<secVars, disk, fileCtr, plain, last, streak, relock, chg, cio, opVars,
                 appState, bg, journal, midLock>>

\* The promise of BackgroundService.start() resolves (line 156)
BackgroundStarted ==
  /\ bg.starting > 0
  /\ bg' = [bg EXCEPT !.starting = @ - 1, !.backgroundServiceRunning = TRUE]
  /\ UNCHANGED <<secVars, fileVars, last, streak, relock, chg, cio, opVars, appState, other,
                 journal, midLock>>

\* The promise of BackgroundService.stop() resolves (line 184)
BackgroundStopped ==
  /\ bg.stopping
  /\ bg' = [bg EXCEPT !.stopping = FALSE, !.backgroundServiceRunning = FALSE]
  /\ UNCHANGED <<secVars, fileVars, last, streak, relock, chg, cio, opVars, appState, other,
                 journal, midLock>>

\* The host reports that the app went to the background or came back.  No
\* component subscribes to AppState, and SecurityService has no hook for
\* it: the report reaches no code.
AppBackground ==
  /\ appState = "active"
  /\ appState' = "background"
  /\ last' = Plain("background", "void")
  /\ UNCHANGED <<secVars, streak, relock, chg, fileVars, cio, opVars, concVars>>

AppForeground ==
  /\ appState = "background"
  /\ appState' = "active"
  /\ last' = Plain("foreground", "void")
  /\ UNCHANGED <<secVars, streak, relock, chg, fileVars, cio, opVars, concVars>>

-----------------------------------------------------------------------------
(* Key management on a working Keychain: no Keychain call throws.           *)

NoCio == [pc |-> "none", data |-> <<>>, id |-> 0, threw |-> FALSE, enc |-> <<>>, out |-> <<>>]

FileInit ==
  /\ disk = EmptyDisk
  /\ fileCtr = 0
  /\ proc = IdleProc
  /\ plain = [id \in FileIds |-> <<>>]
  /\ ops = [id \in FileIds |-> NoOp]
  /\ cancelled = {}
  /\ cleanup = {}
  /\ appState = "active"
  /\ other = IdleProc
  /\ bg = NoBg
  /\ journal = <<>>
  /\ midLock = FALSE

SecInit ==
  /\ masterKey = NULL
  /\ failedAttempts = 0
  /\ inactivityTimer = FALSE
  /\ keychain = EmptyKeychain
  /\ storage = EmptyStorage
  /\ saltCtr = 0
  /\ last = Plain("init", "void")
  /\ streak = 0
  /\ relock = "no"
  /\ chg = NoChange

Init ==
  /\ SecInit
  /\ FileInit
  /\ cio = NoCio

CipherCall ==
  \/ \E d \in CipherBuffers, i \in CipherIds : EncryptBuffer(d, i)
  \/ \E c \in CipherTexts \cup TamperedTexts, i \in CipherIds, g \in GarbageChoices :
        DecryptBuffer(c, i, g)
  \/ \E d \in CipherStrings, i \in CipherIds : EncryptData(d, i)
  \/ \E c \in CipherTexts, i \in CipherIds, g \in GarbageChoices :
        DecryptData(Base64Encode(c), i, g)

Next ==
  \/ \E p \in Passwords : SetPassword(p, {})
  \/ \E p \in Passwords, q \in Passwords : ChangePassword(p, q, {})
  \/ \E p \in Passwords : VerifyPassword(p, {})
  \/ RestoreMasterKey({})
  \/ IsPasswordSet({})
  \/ Lock
  \/ TimerFire
  \/ ResetInactivityTimer
  \/ CipherCall
  \/ Restart

Spec == Init /\ [][Next]_vars

-----------------------------------------------------------------------------
(* Key management on a Keychain whose writes may throw.  During one call   *)
(* of a handler no write throws, or one Keychain write throws and its       *)
(* fallback works, or one Keychain write and its fallback both throw.       *)

Fallback ==
  [setHash |-> "setHashFb", setSalt |-> "setSaltFb", setMaster |-> "setMasterFb"]

FaultSets ==
  {{}} \cup {{a} : a \in DOMAIN Fallback} \cup {{a, Fallback[a]} : a \in DOMAIN Fallback}

\* verifyPassword writes only the master-key mirror; for changePassword the
\* same faults are taken, the hash and salt writes fail in SetPassword
MirrorFaultSets == {f \in FaultSets : f \subseteq {"setMaster", "setMasterFb"}}

NextFault ==
  \/ \E p \in Passwords, f \in FaultSets : SetPassword(p, f)
  \/ \E p \in Passwords, q \in Passwords, f \in MirrorFaultSets : ChangePassword(p, q, f)
  \/ \E p \in Passwords, f \in MirrorFaultSets : VerifyPassword(p, f)
  \/ RestoreMasterKey({})
  \/ Lock
  \/ Restart

SpecFault == Init /\ [][NextFault]_vars

-----------------------------------------------------------------------------
(* Properties of key management *)

IsVerify == last.op \in {"verifyPassword", "changePassword"}

AnyCipherCall ==
  \/ \E d \in CipherBuffers, i \in CipherIds : EncryptBuffer(d, i)
  \/ \E c \in CipherTexts \cup TamperedTexts, i \in CipherIds, g \in GarbageChoices :
        DecryptBuffer(c, i, g)
  \/ \E d \in CipherStrings, i \in CipherIds : EncryptData(d, i)
  \/ \E c \in CipherTexts, i \in CipherIds, g \in GarbageChoices :
        DecryptData(Base64Encode(c), i, g)

\* C1: the verifyPassword call that is the 5th mismatch in a row (counted
\* from a state whose counter is 0: process start, a match, or a wipe)
\* invokes wipeAllKeys, and when it has returned isPasswordSet() returns
\* false and the in-memory master key is null.
C1_Lockout ==
  (IsVerify /\ last.cmp = "mismatch" /\ streak = MAX_FAILED_ATTEMPTS)
     => /\ last.wiped
        /\ last.ret = "false"
        /\ ~isPasswordSet(St, {}).ret
        /\ masterKey = NULL

C1_Witness ==
  /\ last.op = "verifyPassword" /\ last.cmp = "mismatch"
  /\ streak = MAX_FAILED_ATTEMPTS /\ last.wiped

\* C2 as claimed: from the return of lock() until a verifyPassword or
\* restoreMasterKey call succeeds, every cipher call throws and changes
\* nothing.
C2_Original ==
  [][(relock # "no" /\ AnyCipherCall)
        => (last'.ret = "threw" /\ UNCHANGED secVars)]_vars

\* C2 as amended: from the return of lock() until verifyPassword is called
\* with the matching password, restoreMasterKey returns true or setPassword
\* is called, every encryptBuffer/decryptBuffer/encryptData/decryptData call
\* throws and changes no state (it arms no inactivity timer).
C2_SessionLock ==
  [][(relock = "locked" /\ AnyCipherCall)
        => (last'.ret = "threw" /\ UNCHANGED secVars)]_vars

C2_Witness ==
  /\ relock = "locked"
  /\ last.op \in {"encryptBuffer", "decryptBuffer", "encryptData", "decryptData"}
  /\ last.ret = "threw"

\* C6 as claimed: when verifyPassword(p) has returned true, failedAttempts
\* is 0, the master key in memory is the key derived from p, and the
\* inactivity timer is pending.
C6_Original ==
  (last.op = "verifyPassword" /\ last.ret = "true")
     => /\ failedAttempts = 0
        /\ masterKey = DeriveMasterKey(last.pw)
        /\ inactivityTimer

\* C7: a mismatching verifyPassword adds exactly 1 to the counter, a matching
\* one sets it to 0, wipeAllKeys is invoked exactly by the mismatch that
\* takes the counter to 5, and the counter is the number of mismatches in a
\* row (0 again after the wipe).
C7_Counter ==
  [][\A p \in Passwords :
       VerifyPassword(p, {}) =>
          /\ last'.cmp = "mismatch" => last'.cnt = failedAttempts + 1
          /\ last'.cmp = "match" => failedAttempts' = 0
          /\ last'.wiped <=> (last'.cmp = "mismatch" /\ last'.cnt = MAX_FAILED_ATTEMPTS)
          /\ failedAttempts' = (IF last'.wiped THEN 0 ELSE last'.cnt)
          /\ failedAttempts' = streak' % MAX_FAILED_ATTEMPTS]_vars

\* four mismatches, then the matching password: no wipe, counter 0
C7_Witness ==
  /\ last.op = "verifyPassword" /\ last.cmp = "match" /\ last.ret = "true"
  /\ last.was = MAX_FAILED_ATTEMPTS - 1 /\ ~last.wiped
  /\ failedAttempts = 0 /\ streak = 0
  /\ keychain.password # NULL

\* C9 as claimed: when changePassword(old, new) has returned true, the
\* stored credential is the hash of new under the salt generated by this
\* call, and the master key in memory and its Keychain mirror are the key
\* derived from new.
C9_Original ==
  (last.op = "changePassword" /\ last.ret = "true")
     => /\ keychain.password = hashPassword(last.pw2, generateSalt(saltCtr))
        /\ storage.password_salt = generateSalt(saltCtr)
        /\ keychain.salt = generateSalt(saltCtr)
        /\ masterKey = DeriveMasterKey(last.pw2)
        /\ keychain.masterkey = ToHex(DeriveMasterKey(last.pw2))

\* C10: after changePassword(old, new) has returned true with old # new,
\* and while that credential stands, a verifyPassword(old) made while the
\* app is locked returns false and a verifyPassword(new) returns true.
C10_OldRejected ==
  [][\A p \in Passwords :
       (chg # NoChange /\ masterKey = NULL /\ VerifyPassword(p, {}))
          => /\ p = chg.old => last'.ret = "false"
             /\ p = chg.new => last'.ret = "true"]_vars

C10_Witness ==
  /\ chg # NoChange /\ relock = "no" /\ masterKey = DeriveMasterKey(chg.new)
  /\ last.op = "verifyPassword" /\ last.pw = chg.new /\ last.ret = "true"

\* C11 as claimed: once wipeAllKeys has returned, the Keychain holds no
\* password hash, no salt and no mirrored master key, storage holds no file
\* records, the master key is null, restoreMasterKey returns false and
\* verifyPassword returns false for every password.
C11_Original ==
  (IsVerify /\ last.wiped)
     => /\ keychain.password = NULL
        /\ keychain.salt = NULL
        /\ keychain.masterkey = NULL
        /\ storage.files = <<>>
        /\ masterKey = NULL
        /\ ~restoreMasterKey(St, {}).ret
        /\ \A p \in Passwords : ~verifyPassword(St, p, {}).ret

\* C12: restoreMasterKey returns true iff the Keychain holds a mirrored
\* master key; then the master key in memory is that mirror and the
\* inactivity timer is pending, otherwise key and timer are unchanged.  The
\* mirror is the key of the last derivation: every derivation writes it, and
\* nothing else writes it but a wipe, which removes it.
C12_Restore ==
  [][/\ RestoreMasterKey({})
          => LET present == keychain.masterkey # NULL
             IN /\ last'.ret = Bool(present)
                /\ present => (masterKey' = FromHex(keychain.masterkey) /\ inactivityTimer')
                /\ ~present => UNCHANGED <<masterKey, inactivityTimer>>
     /\ (masterKey = NULL /\ masterKey' # NULL /\ last'.op # "restoreMasterKey")
          => keychain'.masterkey = ToHex(masterKey')
     /\ keychain'.masterkey # keychain.masterkey
          => \/ keychain'.masterkey = NULL /\ last'.wiped
             \/ masterKey = NULL /\ keychain'.masterkey = ToHex(masterKey')]_vars

\* the key of the second password was derived, the app locked, the key restored
C12_Witness ==
  /\ last.op = "restoreMasterKey" /\ last.ret = "true"
  /\ masterKey = DeriveMasterKey(2) /\ inactivityTimer
  /\ keychain.masterkey = ToHex(masterKey)

\* C13: after lock() the master key is null and no timeout is pending, and
\* a second lock() would leave the whole state as it is.
C13_LockIdempotent ==
  last.op = "lock" => (masterKey = NULL /\ ~inactivityTimer /\ lock(St) = St)

\* locked with a credential stored, a mirrored key and failed attempts counted
C13_Witness ==
  /\ last.op = "lock"
  /\ keychain.password # NULL /\ keychain.masterkey # NULL /\ failedAttempts > 0
  /\ lock(St) = St

\* C26 as claimed: decryptBuffer, given under id A a ciphertext that
\* encryptBuffer produced under A with the key now held and one byte of
\* which was changed, throws (a plaintext it returned would differ from
\* the original: the changed byte garbles a block).
C26_Original ==
  [][\A c \in CipherTexts, i \in CipherIds, n \in {1, 2}, g \in GarbageChoices :
        LET e == encryptBuffer(St, <<7, 8>>, i)
            t == IF n = 1 THEN Tamper(c, 1) ELSE Tamper(c, Len(c))
        IN (~e.threw /\ c = e.out /\ DecryptBuffer(t, i, g)) => last'.ret = "threw"]_vars

-----------------------------------------------------------------------------
(* An idle session: the user sets, changes and enters passwords, but makes  *)
(* no cipher call, never calls resetInactivityTimer and never locks by      *)
(* hand.  A pending timeout fires: setTimeout runs its callback.            *)

NextIdle ==
  \/ \E p \in Passwords : SetPassword(p, {})
  \/ \E p \in Passwords, q \in Passwords : ChangePassword(p, q, {})
  \/ \E p \in Passwords : VerifyPassword(p, {})
  \/ RestoreMasterKey({})
  \/ TimerFire

SpecIdle == Init /\ [][NextIdle]_vars /\ WF_vars(TimerFire)

\* C14 as claimed: whenever the master key is in memory, however it got
\* there, and no cipher call and no resetInactivityTimer call follows, the
\* inactivity timer expires and lock() leaves the master key null.
C14_Original == (masterKey # NULL) ~> (masterKey = NULL)

-----------------------------------------------------------------------------
(* The app in the foreground and in the background: the user acts on the    *)
(* app only while it is in the foreground.                                  *)

NextBackground ==
  \/ /\ appState = "active"
     /\ \/ \E p \in Passwords : SetPassword(p, {})
        \/ \E p \in Passwords : VerifyPassword(p, {})
        \/ RestoreMasterKey({})
        \/ Lock
        \/ ResetInactivityTimer
  \/ TimerFire
  \/ AppBackground
  \/ AppForeground

SpecBackground == Init /\ [][NextBackground]_vars

\* C15 as claimed: while the app is in the background the master key is
\* not in memory, because lock() ran when the host reported the change.
C15_Original == appState = "background" => masterKey = NULL

\* The credential verifyPassword finds: the stored hash and the salt it
\* would hash a password with
StoredHash == keychain.password
StoredSalt == LoadSalt(St, {}).salt

\* C8 as claimed: setPassword(p) either returns normally, and then the
\* stored hash is the hash of p under the stored salt and the master key is
\* the key derived from p, or it throws, and then the stored hash, the
\* stored salt and the master key are what they were before the call.
C8_Original ==
  [][\A p \in Passwords, f \in FaultSets :
       SetPassword(p, f) =>
          IF last'.ret = "void"
          THEN /\ StoredHash' # NULL /\ StoredSalt' # NULL
               /\ StoredHash' = hashPassword(p, StoredSalt')
               /\ masterKey' = DeriveMasterKey(p)
          ELSE /\ StoredHash' = StoredHash
               /\ StoredSalt' = StoredSalt
               /\ masterKey' = masterKey]_vars

-----------------------------------------------------------------------------
(* The chunked string API, on an unlocked service: a string is encrypted    *)
(* and the result is decrypted under the same file id.                      *)

RECURSIVE StringsOfLen(_)
StringsOfLen(n) ==
  IF n = 0 THEN {<<>>}
  ELSE {Append(str, Chr(c)) : str \in StringsOfLen(n - 1), c \in {"a", "e'"}}

Strings == UNION {StringsOfLen(n) : n \in 0..MaxStrLen}

StringFileIds == {1, 2}

\* The service right after setPassword on a fresh install
FreshSt == [mk |-> NULL, fa |-> 0, timer |-> FALSE, kc |-> EmptyKeychain,
            store |-> EmptyStorage, salts |-> 0]
SetUpSt == startInactivityTimer(setPassword(FreshSt, 1, {}).st)

SetUpInit ==
  /\ masterKey = SetUpSt.mk
  /\ failedAttempts = SetUpSt.fa
  /\ inactivityTimer = SetUpSt.timer
  /\ keychain = SetUpSt.kc
  /\ storage = SetUpSt.store
  /\ saltCtr = SetUpSt.salts
  /\ last = Plain("verifyPassword", "true")
  /\ streak = 0
  /\ relock = "no"
  /\ chg = NoChange

InitChunked ==
  /\ SetUpInit
  /\ FileInit
  /\ cio \in {[pc |-> "in", data |-> str, id |-> i, threw |-> FALSE, enc |-> <<>>, out |-> <<>>] :
                str \in Strings, i \in StringFileIds}

EncryptDataChunked ==
  /\ cio.pc = "in"
  /\ LET r == encryptDataChunked(St, cio.data, cio.id)
     IN /\ Install(r.st)
        /\ cio' = [cio EXCEPT !.pc = IF r.threw THEN "out" ELSE "enc",
                              !.threw = r.threw, !.enc = r.out]
        /\ last' = Plain("encryptDataChunked", IF r.threw THEN "threw" ELSE "ok")
  /\ UNCHANGED <<streak, relock, chg, fileVars, opVars, appState, concVars>>

DecryptDataChunked(g) ==
  /\ cio.pc = "enc"
  /\ LET r == decryptDataChunked(St, cio.enc, cio.id, g)
     IN /\ Install(r.st)
        /\ cio' = [cio EXCEPT !.pc = "out", !.threw = r.threw, !.out = r.out]
        /\ last' = Plain("decryptDataChunked", IF r.threw THEN "threw" ELSE "ok")
  /\ UNCHANGED <<streak, relock, chg, fileVars, opVars, appState, concVars>>

NextChunked ==
  \/ EncryptDataChunked
  \/ \E g \in GarbageChoices : DecryptDataChunked(g)

SpecChunked == InitChunked /\ [][NextChunked]_vars

\* C5 as claimed: for every string P and file id A,
\* decryptDataChunked(encryptDataChunked(P, A), A) returns P.
C5_Original ==
  cio.pc = "out" => (~cio.threw /\ cio.out = cio.data)


-----------------------------------------------------------------------------
(* Storing and retrieving files, one FileService call at a time, while the  *)
(* user locks the app and logs in again with the password.                  *)

InitFile ==
  /\ SetUpInit
  /\ FileInit
  /\ cio = NoCio

NextFile ==
  \/ /\ fileCtr < MaxSerial
     /\ \E content \in Sources, fileType \in FileTypes : SecureFileStart(content, fileType)
  \/ SecureFileChunk
  \/ SecureFileFinish
  \/ \E id \in FileIds, kind \in {"get", "read"} : GetSecureFileUriStart(id, kind)
  \/ \E g \in GarbageChoices : GetSecureFileUriChunk(g)
  \/ GetSecureFileUriFinish
  \/ Return
  \/ Lock
  \/ VerifyPassword(1, {})

SpecFile == InitFile /\ [][NextFile]_vars

Retrieved == proc.pc = "done" /\ proc.kind \in {"get", "read"} /\ proc.ret \in {"uri", "content"}

\* C3 as claimed: a getSecureFileUri or readSecureFile call made and
\* answered while the master key is null hands out no URI of a file
\* holding plaintext and no plaintext content.
C3_Original ==
  (Retrieved /\ proc.locked /\ masterKey = NULL) => disk.cache[proc.id].data = <<>>

\* C4: a getSecureFileUri call that found no decrypted copy and returns a
\* URI has written a file whose bytes are the bytes secureFile was given
\* (and readSecureFile returns those bytes), whatever the length.
\* While the master key is held no chunk fails to decrypt.
C4_RoundTrip ==
  /\ [](  (Retrieved /\ proc.fresh)
            => /\ disk.cache[proc.id] = [ex |-> TRUE, data |-> plain[proc.id]]
               /\ proc.kind = "read" => proc.content = plain[proc.id])
  /\ [][\A g \in GarbageChoices :
          (masterKey # NULL /\ GetSecureFileUriChunk(g)) => proc'.pc = "decrypting"]_vars

\* a file of several chunks, the last one partial, has come back
C4_Witness ==
  /\ Retrieved /\ proc.fresh
  /\ Len(plain[proc.id]) > 2 * FileChunkSize
  /\ Len(plain[proc.id]) % FileChunkSize # 0
  /\ disk.cache[proc.id].data = plain[proc.id]

\* C20 as claimed: getSecureFileUri throws for an id without a record, and
\* a URI (or content) it returns is never that of a partially decrypted
\* file: the file holds all the bytes that were stored.
C20_Original ==
  /\ (proc.pc = "done" /\ proc.kind \in {"get", "read"}
        /\ ~FindMetadata(storage.files, proc.id).found) => proc.ret = "threw"
  /\ Retrieved => disk.cache[proc.id].data = plain[proc.id]

\* The whole of file id has been processed: secured and recorded, or
\* decrypted to the cache
Secured(id) == FindMetadata(storage.files, id).found
Decrypted(id) == disk.cache[id] = [ex |-> TRUE, data |-> plain[id]]
IsHundred(pct) == pct.n = 100 * pct.d
InRange(pct) == PctLeq(Pct(0, 1), pct) /\ PctLeq(pct, Pct(100, 1))

\* C18 as claimed: the progress values written to an operation record, and
\* those given to onProgress by one getSecureFileUri call, never decrease,
\* stay within 0..100, and 100 is reported only once the whole file has
\* been processed.
C18_Original ==
  [][/\ \A id \in FileIds :
          (ops[id].active /\ ops'[id].active)
             => /\ PctLeq(ops[id].progress, ops'[id].progress)
                /\ InRange(ops'[id].progress)
                /\ IsHundred(ops'[id].progress) => Secured(id)'
     /\ (proc'.kind \in {"get", "read"} /\ proc'.progress # proc.progress)
          => /\ proc.pc = "decrypting" => PctLeq(proc.progress, proc'.progress)
             /\ InRange(proc'.progress)
             /\ IsHundred(proc'.progress) => \E id \in FileIds : id = proc'.id /\ Decrypted(id)']_vars

-----------------------------------------------------------------------------
(* Storing files while the user cancels operations and the cleanup          *)
(* timeouts of cancelOperation and secureFile fire.                         *)

NextOps ==
  \/ /\ fileCtr < MaxSerial
     /\ \E content \in Sources, fileType \in FileTypes : SecureFileStart(content, fileType)
  \/ SecureFileChunk
  \/ SecureFileFinish
  \/ Return
  \/ \E id \in FileIds : cancelOperation(id)
  \/ \E t \in cleanup : CleanupTimer(t)
  \/ Lock
  \/ VerifyPassword(1, {})

SpecOps == InitFile /\ [][NextOps]_vars

Storing(id) == proc.kind = "store" /\ proc.id = id

\* C16 as claimed: once cancelOperation was called during the chunk loop of
\* secureFile, at most the chunk in flight is still processed, and secureFile
\* ends by throwing, with the operation 'failed' for a cancellation reason.
C16_Original ==
  \A id \in FileIds :
     (ops[id].cancelAt # -1 /\ Storing(id))
        => /\ proc.chunkIndex <= ops[id].cancelAt + 1
           /\ proc.pc = "done"
                => /\ proc.ret = "threw"
                   /\ ops[id].active
                        => /\ ops[id].status = "failed"
                           /\ ops[id].error \in {"Cancelled", "Cancelled by user"}

\* C17 as claimed: the status of an operation moves from 'processing' to
\* 'completed' or to 'failed' and then stays as it is.
C17_Original ==
  [][\A id \in FileIds :
        (ops[id].active /\ ops'[id].active /\ ops[id].status \in {"completed", "failed"})
           => ops'[id].status = ops[id].status]_vars

\* C19 as claimed: when secureFile fails mid-stream (it throws, or it was
\* cancelled during its chunk loop), the operation is marked 'failed' with
\* an error detail and storage never holds a record with its file id.
C19_Original ==
  \A id \in FileIds :
     (ops[id].cancelAt # -1 \/ (Storing(id) /\ proc.ret = "threw"))
        => /\ ~Secured(id)
           /\ ops[id].active => (ops[id].status = "failed" /\ ops[id].error # "none")

\* C34 as claimed: the progress value of an operation changes only while
\* its status is 'processing'; once the status is 'failed' or 'completed'
\* the progress value stays as it is.
C34_Original ==
  [][\A id \in FileIds :
        (ops[id].active /\ ops'[id].active /\ ops'[id].progress # ops[id].progress)
           => ops[id].status = "processing"]_vars

\* C31 as claimed: once cancelOperation was called for a secureFile
\* operation that was 'processing', in its chunk loop or after it, storage
\* never holds a record with its file id and secureFile does not return the
\* metadata, whenever the cleanup timeout of cancelOperation fires.
C31_Original ==
  \A id \in FileIds :
     ops[id].cancelAt # -1
        => /\ ~Secured(id)
           /\ ~(Storing(id) /\ proc.pc = "done" /\ proc.ret = "metadata")

-----------------------------------------------------------------------------
(* Storing and deleting files, one FileService call at a time, while the    *)
(* user locks the app, logs in again, or enters a wrong password until the  *)
(* data is wiped.                                                           *)

NextDelete ==
  \/ /\ fileCtr < MaxSerial
     /\ \E content \in Sources, fileType \in FileTypes : SecureFileStart(content, fileType)
  \/ SecureFileChunk
  \/ SecureFileFinish
  \/ \E id \in FileIds : DeleteSecureFileStart(id)
  \/ DeleteSecureFileExists
  \/ DeleteSecureFileUnlink
  \/ Return
  \/ Lock
  \/ \E p \in {1, 2} : VerifyPassword(p, {})

SpecDelete == InitFile /\ [][NextDelete]_vars

Deleted == proc.kind = "delete" /\ proc.pc = "done"

CallsAtRest == proc.pc \in {"idle", "done"} /\ other.pc \in {"idle", "done"}

\* C22 as claimed: while no secureFile or deleteSecureFile call is in
\* progress, storage holds a record with an id exactly when the ciphertext
\* file of that id exists.
C22_Original ==
  CallsAtRest => \A id \in FileIds : Secured(id) <=> disk.enc[id].ex

-----------------------------------------------------------------------------
(* Overlapping FileService calls.  Two calls are pending at a time: the one *)
(* that runs (proc) and one waiting at an await (other); the event loop     *)
(* resumes either.  The master key is held throughout.                      *)

\* the files stored while calls overlap: an empty one and one of two chunks
ConcSources == {Source(0), Source(FileChunkSize + 1)}

NextConcStore ==
  \/ \E content \in ConcSources, fileType \in FileTypes : SecureFileStart(content, fileType)
  \/ SecureFileChunk
  \/ SecureFileFinish
  \/ \E id \in FileIds : DeleteSecureFileStart(id)
  \/ DeleteSecureFileExists
  \/ DeleteSecureFileUnlink
  \/ Return
  \/ Switch

SpecConcStore == InitFile /\ [][NextConcStore]_vars

RecordIds == [i \in 1..Len(storage.files) |-> storage.files[i].id]

\* C23: however secureFile and deleteSecureFile calls overlap, the record
\* collection holds exactly the records of the stores that completed and
\* that no delete returning true has removed, in the order the stores
\* completed, every id once.
C23_NoLostUpdate ==
  /\ RecordIds = journal
  /\ \A i, j \in 1..Len(storage.files) : storage.files[i].id = storage.files[j].id => i = j

\* two stores overlapped and completed in the reverse of the order they
\* started in, and the deletes of the two records overlap
C23_Witness ==
  /\ RecordIds = <<2, 1>>
  /\ proc.kind = "delete" /\ proc.pc = "existsThumb" /\ proc.id = 2
  /\ other.kind = "delete" /\ other.pc = "unlinkEnc" /\ other.id = 1

\* the packets of file F from offset on are the chunks idx, idx + 1, ...:
\* each ciphertext byte was made under the id and the IV of its chunk
RECURSIVE ChunkIdsFrom(_, _, _, _)
ChunkIdsFrom(F, data, offset, idx) ==
  IF offset >= Len(data) THEN TRUE
  ELSE LET h == readUInt32BE(SubSeq(data, offset + 1, Min(offset + HEADER_LEN, Len(data))))
           start == offset + HEADER_LEN
       IN /\ ~h.threw
          /\ start + h.n <= Len(data)
          /\ \A k \in 1..h.n :
                /\ data[start + k].id = ChunkId(F, idx)
                /\ data[start + k].iv = generateDeterministicIV(ChunkId(F, idx))
                /\ data[start + k].n = k
          /\ ChunkIdsFrom(F, data, start + h.n, idx + 1)

\* every byte of ciphertext on disk
CipherCells ==
  UNION {{disk.enc[F].data[n] : n \in {k \in 1..Len(disk.enc[F].data) :
                                           disk.enc[F].data[k].id # NoId}}
         \cup {disk.thumb[F].data[n].v : n \in 1..Len(disk.thumb[F].data)} : F \in FileIds}

\* C27: under one master key, chunk i of file F is encrypted under the id
\* of F and i and the thumbnail under the thumbnail id of F, so that no key
\* and IV ever carry two different plaintexts: two ciphertext bytes made
\* under the same key, id, IV and position carry the same plaintext byte.
C27_NoReuse ==
  /\ \A F \in FileIds :
        /\ ChunkIdsFrom(F, disk.enc[F].data, 0, 0)
        /\ \A n \in 1..Len(disk.thumb[F].data) :
              /\ disk.thumb[F].data[n].v.id = ThumbId(F)
              /\ disk.thumb[F].data[n].v.iv = generateDeterministicIV(ThumbId(F))
  /\ \A c1 \in CipherCells, c2 \in CipherCells :
        (c1.mk = c2.mk /\ c1.id = c2.id /\ c1.iv = c2.iv /\ c1.n = c2.n) => c1.b = c2.b

\* two images of two chunks each are stored, with their thumbnails
C27_Witness ==
  /\ Len(storage.files) = 2
  /\ \A F \in {1, 2} : /\ Len(plain[F]) > FileChunkSize
                        /\ disk.thumb[F].ex
                        /\ Len(disk.enc[F].data) > 2 * HEADER_LEN

NextConcGet ==
  \/ \E content \in ConcSources, fileType \in FileTypes : SecureFileStart(content, fileType)
  \/ SecureFileChunk
  \/ SecureFileFinish
  \/ \E id \in FileIds : GetSecureFileUriStart(id, "get")
  \/ \E g \in GarbageChoices : GetSecureFileUriChunk(g)
  \/ GetSecureFileUriFinish
  \/ Return
  \/ Switch

SpecConcGet == InitFile /\ [][NextConcGet]_vars

\* C24 as claimed: a call ends as it does when it runs alone, whatever a
\* call for another file id does between its awaits.  Alone and with the
\* master key held, secureFile returns the record it stored, and a
\* getSecureFileUri that decrypts the file itself returns the URI of a file
\* holding the bytes that were stored.
C24_Original ==
  /\ (proc.kind = "store" /\ proc.pc = "done") => (proc.ret = "metadata" /\ Secured(proc.id))
  /\ (Retrieved /\ proc.fresh) => Decrypted(proc.id)

\* C30 as claimed: a URI that getSecureFileUri returns is that of a file
\* holding all the bytes that were stored, also when another
\* getSecureFileUri call for the same id is pending.
C30_Original ==
  (Retrieved /\ disk.cache[proc.id].ex) => disk.cache[proc.id].data = plain[proc.id]

-----------------------------------------------------------------------------
(* lock() between two chunk iterations (SpecFile)                           *)

\* one iteration of the chunk loop of secureFile or getSecureFileUri
ChunkStep == SecureFileChunk \/ \E g \in GarbageChoices : GetSecureFileUriChunk(g)

\* the iteration throws: secureFile rethrows with the operation 'failed',
\* getSecureFileUri returns null, and nothing is written
StreamFails ==
  /\ proc'.pc = "done"
  /\ proc'.ret = IF proc.kind = "store" THEN "threw" ELSE "null"
  /\ disk' = disk
  /\ (proc.kind = "store" /\ ops'[proc.id].active)
        => (ops'[proc.id].status = "failed" /\ ops'[proc.id].error # "none")

\* no byte of ciphertext on disk was made under a null master key
\* (a thumbnail file holds the base64 text of its ciphertext)
NoNullKeyCipher ==
  \A id \in FileIds :
     /\ \A n \in 1..Len(disk.enc[id].data) :
           disk.enc[id].data[n].id # NoId => disk.enc[id].data[n].mk # NULL
     /\ \A n \in 1..Len(disk.thumb[id].data) : disk.thumb[id].data[n].v.mk # NULL

\* C25 as claimed: once lock() has run between two chunk iterations, the
\* next chunk iteration throws and the stream ends there.
C25_Original == [][(midLock /\ ChunkStep) => StreamFails]_vars

\* C25: a chunk iteration that finds the master key null (lock() has run
\* and no login has completed since) throws the not-authenticated error
\* and ends the stream: secureFile fails with the operation 'failed',
\* getSecureFileUri returns null, nothing is appended, the key stays null,
\* and no ciphertext is ever made under a null key.
C25_LockedStream ==
  /\ [][(masterKey = NULL /\ ChunkStep) => (StreamFails /\ masterKey' = NULL)]_vars
  /\ []NoNullKeyCipher

\* secureFile was locked out after its first chunk and has failed
C25_Witness ==
  /\ midLock /\ masterKey = NULL
  /\ proc.kind = "store" /\ proc.pc = "done" /\ proc.ret = "threw"
  /\ proc.chunkIndex > 0 /\ proc.offset < proc.size
  /\ ops[proc.id].status = "failed" /\ ops[proc.id].error = "Master key not available"
  /\ Len(disk.enc[proc.id].data) > 0

-----------------------------------------------------------------------------
(* Overlapping secureFile calls and the background service: the promises of *)
(* BackgroundService.start() and stop() settle at any time.                 *)

NextService ==
  \/ \E content \in ConcSources, fileType \in FileTypes : SecureFileStart(content, fileType)
  \/ SecureFileChunk
  \/ SecureFileFinish
  \/ Return
  \/ Switch
  \/ BackgroundStarted
  \/ BackgroundStopped

SpecService == InitFile /\ [][NextService]_vars

\* a secureFile call has registered its operation and not reached its finally block
Running(p) == p.kind = "store" /\ p.pc = "encrypting"

InFlight == (IF Running(proc) THEN 1 ELSE 0) + (IF Running(other) THEN 1 ELSE 0)

C38_Original ==
  /\ (InFlight = 0 /\ bg.starting = 0 /\ ~bg.stopping)
        => (~bg.backgroundServiceRunning /\ bg.service = "stopped")
  /\ (InFlight > 0 /\ bg.starting = 0 /\ ~bg.stopping)
        => (bg.backgroundServiceRunning /\ bg.service = "running")

-----------------------------------------------------------------------------
(* The login screen: handleLogin restores the mirrored key, then verifies   *)
(* the password that was typed.                                             *)

\* login.tsx, lines 33-36: restoreMasterKey(), then verifyPassword(password)
HandleLogin(password, f) ==
  /\ failedAttempts < MaxCount
  /\ LET r == restoreMasterKey(St, f)
         v == verifyPassword(r.st, password, f)
     IN /\ Install(v.st)
        /\ last' = Call("handleLogin", password, 0, Bool(v.ret), v.cmp, v.wiped, v.cnt)
        /\ streak' = StreakAfter(v.cmp)
        /\ relock' = IF r.ret \/ v.cmp = "match" THEN "no" ELSE relock
        /\ chg' = IF v.wiped THEN NoChange ELSE chg
  /\ UNCHANGED <<fileVars, cio, opVars, appState, concVars>>

NextLogin ==
  \/ \E p \in Passwords : SetPassword(p, {})
  \/ \E p \in Passwords : HandleLogin(p, {})
  \/ Lock
  \/ TimerFire
  \/ Restart

SpecLogin == Init /\ [][NextLogin]_vars

\* C29: a login that starts with the key manager locked and ends with
\* verifyPassword returning false leaves the master key out of memory.
C29_Original ==
  [][\A p \in Passwords :
       (masterKey = NULL /\ HandleLogin(p, {}) /\ last'.ret = "false")
          => masterKey' = NULL]_vars

-----------------------------------------------------------------------------
(* A stored file across lock, login and password changes.  lock() is also   *)
(* what the inactivity timeout calls, and it leaves the home screen, with   *)
(* its settings dialog, where it is.                                        *)

\* _layout.tsx, lines 223-254: the settings dialog calls changePassword
HandleChangePassword(oldPassword, newPassword) ==
  /\ saltCtr < MaxChanges + 1
  /\ failedAttempts < MaxCount
  /\ LET v == verifyPassword(St, oldPassword, {})
         r == changePassword(St, oldPassword, newPassword, {})
     IN /\ Install(r.st)
        /\ last' = Call("changePassword", oldPassword, newPassword, r.ret,
                        v.cmp, r.wiped, v.cnt)
        /\ streak' = StreakAfter(v.cmp)
        /\ relock' = IF v.cmp = "match" THEN "no" ELSE relock
        /\ chg' = IF r.ret = "true" /\ oldPassword # newPassword
                  THEN [old |-> oldPassword, new |-> newPassword]
                  ELSE IF r.ret = "false" /\ ~r.wiped THEN chg ELSE NoChange
  /\ UNCHANGED <<fileVars, cio, opVars, appState, concVars>>

NextSurvive ==
  \/ /\ fileCtr < MaxSerial
     /\ \E content \in ConcSources, fileType \in FileTypes : SecureFileStart(content, fileType)
  \/ SecureFileChunk
  \/ SecureFileFinish
  \/ \E id \in FileIds : GetSecureFileUriStart(id, "get")
  \/ \E g \in GarbageChoices : GetSecureFileUriChunk(g)
  \/ GetSecureFileUriFinish
  \/ Return
  \/ Lock
  \/ \E p \in Passwords : HandleLogin(p, {})
  \/ \E p \in Passwords, q \in Passwords : HandleChangePassword(p, q)

SpecSurvive == InitFile /\ [][NextSurvive]_vars

\* the master keys under which the ciphertext of file id was made
KeysOf(id) ==
  {disk.enc[id].data[n].mk : n \in {k \in 1..Len(disk.enc[id].data) :
                                        disk.enc[id].data[k].id # NoId}}

\* C32 as claimed: as long as the record of a stored file is there (no wipe,
\* no delete), the master key held after a login or a password change is
\* the key the file was encrypted under, and a getSecureFileUri call that
\* decrypts the file yields the bytes that were stored.
C32_Original ==
  /\ \A id \in FileIds :
        (Secured(id) /\ masterKey # NULL) => KeysOf(id) \subseteq {masterKey}
  /\ (Retrieved /\ proc.fresh /\ Secured(proc.id)) => Decrypted(proc.id)

-----------------------------------------------------------------------------
(* The inactivity timer *)

BufferCall ==
  \/ \E d \in CipherBuffers, i \in CipherIds : EncryptBuffer(d, i)
  \/ \E c \in CipherTexts \cup TamperedTexts, i \in CipherIds, g \in GarbageChoices :
        DecryptBuffer(c, i, g)

\* C36 as claimed: no inactivity timer is pending while the master key is
\* null; an encryptBuffer or decryptBuffer call made while unlocked leaves
\* the one timer pending, started anew; resetInactivityTimer changes nothing
\* while locked.
C36_Original ==
  /\ [](masterKey = NULL => ~inactivityTimer)
  /\ [][(masterKey # NULL /\ BufferCall) => (inactivityTimer' /\ masterKey' = masterKey)]_vars
  /\ [][(masterKey = NULL /\ ResetInactivityTimer) => UNCHANGED secVars]_vars

-----------------------------------------------------------------------------
(* Chunk order and framing of the streaming format                          *)

\* plaintext bytes [i * CHUNK_SIZE, min((i + 1) * CHUNK_SIZE, size)) of file id
PlainChunk(id, i) ==
  SubSeq(plain[id], i * FileChunkSize + 1, Min((i + 1) * FileChunkSize, Len(plain[id])))

\* record i of the ciphertext file of id: the length, then the encryption of
\* chunk i under the id of id and i
Record(id, i) ==
  LET c == CbcEncrypt([mk |-> SetUpSt.mk, id |-> ChunkId(id, i)],
                      generateDeterministicIV(ChunkId(id, i)), PlainChunk(id, i))
  IN writeUInt32BE(Len(c)) \o c

RECURSIVE Records(_, _)
Records(id, k) == IF k = 0 THEN <<>> ELSE Records(id, k - 1) \o Record(id, k - 1)

NumChunks(id) == (Len(plain[id]) + FileChunkSize - 1) \div FileChunkSize

\* C33: while secureFile runs, after k iterations the ciphertext file is
\* records 0..k-1, each a 4-byte big-endian length and the encryption of
\* plaintext chunk i under the id of chunk i, and a stored file holds one
\* record per chunk; getSecureFileUri, after k iterations, stands at the
\* start of record k and has written plaintext chunks 0..k-1 in order, each
\* decrypted under the id of its index.
C33_Framing ==
  /\ \A id \in FileIds :
        /\ (Storing(id) /\ proc.pc = "encrypting")
              => /\ disk.enc[id].data = Records(id, proc.chunkIndex)
                 /\ proc.offset = Min(proc.chunkIndex * FileChunkSize, Len(plain[id]))
        /\ Secured(id) => disk.enc[id].data = Records(id, NumChunks(id))
  /\ (proc.kind \in {"get", "read"} /\ proc.pc = "decrypting")
        => /\ proc.chunkIndex <= NumChunks(proc.id)
           /\ proc.offset = Len(Records(proc.id, proc.chunkIndex))
           /\ disk.cache[proc.id].data
                 = SubSeq(plain[proc.id], 1,
                          Min(proc.chunkIndex * FileChunkSize, Len(plain[proc.id])))

\* two records of a file of three chunks, the last one partial, have been
\* decrypted
C33_Witness ==
  /\ proc.kind = "get" /\ proc.pc = "decrypting"
  /\ proc.chunkIndex = 2 /\ NumChunks(proc.id) = 3
  /\ Len(plain[proc.id]) % FileChunkSize # 0
  /\ disk.cache[proc.id].data = PlainChunk(proc.id, 0) \o PlainChunk(proc.id, 1)

-----------------------------------------------------------------------------
(* Password changes from the settings dialog, right and wrong, with a file  *)
(* stored, while the key manager is unlocked or locked.                     *)

NextSettings ==
  \/ /\ fileCtr < MaxSerial
     /\ \E fileType \in FileTypes : SecureFileStart(Source(1), fileType)
  \/ SecureFileChunk
  \/ SecureFileFinish
  \/ Return
  \/ Lock
  \/ \E p \in Passwords, q \in Passwords : HandleChangePassword(p, q)

SpecSettings == InitFile /\ [][NextSettings]_vars

\* a changePassword call from the settings dialog whose old password does
\* not match the stored hash
WrongOldPassword ==
  /\ \E p \in Passwords, q \in Passwords : HandleChangePassword(p, q)
  /\ last'.cmp = "mismatch"

Kept ==
  /\ keychain' = keychain
  /\ storage' = storage
  /\ masterKey' = masterKey

\* C35 as claimed: changePassword with an incorrect old password returns
\* false and leaves the credential record, the master key in memory, its
\* mirror and the FileRecord collection as they were, whatever the
\* failed-attempt counter.
C35_Original == [][WrongOldPassword => (last'.ret = "false" /\ Kept)]_vars

\* C35: changePassword with an incorrect old password returns false and
\* counts one failed attempt; unless that makes MAX_FAILED_ATTEMPTS, the
\* credential record, the master key in memory, its mirror and the
\* FileRecord collection are as they were; when it does, wipeAllKeys has
\* run: no hash, no mirrored key, no master key and no FileRecord is left.
C35_WrongOld ==
  [][WrongOldPassword
       => /\ last'.ret = "false"
          /\ last'.wiped <=> failedAttempts + 1 >= MAX_FAILED_ATTEMPTS
          /\ IF last'.wiped
             THEN /\ keychain'.password = NULL /\ keychain'.masterkey = NULL
                  /\ masterKey' = NULL /\ storage'.files = <<>>
                  /\ failedAttempts' = 0
             ELSE Kept /\ failedAttempts' = failedAttempts + 1]_vars

\* a wrong old password was the fourth failure in a row, with a file stored
\* and the key in memory
C35_Witness ==
  /\ last.op = "changePassword" /\ last.cmp = "mismatch" /\ last.ret = "false"
  /\ failedAttempts = MAX_FAILED_ATTEMPTS - 1
  /\ Len(storage.files) = 1
  /\ masterKey # NULL

-----------------------------------------------------------------------------
(* The legacy FileService (services/FileService.ts): secureFile encrypts    *)
(* the base64 text of the whole file, by encryptData or, above 1,000,000    *)
(* characters (two chunks of encryptDataChunked), by encryptDataChunked,    *)
(* and stores a record without a version, written here as version 0.        *)

\* LegacyLimit_low sends files of a single chunk to encryptDataChunked
LegacyLimit_low == StrChunkSize \div 2

\* 1,000,000 characters, scaled with the chunk size of encryptDataChunked
LegacyLimit == 2 * StrChunkSize

\* await this.startBackgroundService(), lines 471-472
LegacyCountOperation(b) ==
  LET c == [b EXCEPT !.activeBackgroundOperations = @ + 1]
  IN IF c.backgroundServiceRunning THEN c
     ELSE [c EXCEPT !.backgroundServiceRunning = TRUE, !.service = "running"]

\* lines 550-553 and 574-577
LegacyEndOperation(b) ==
  LET c == [b EXCEPT !.activeBackgroundOperations = @ - 1]
  IN IF c.activeBackgroundOperations = 0 /\ c.backgroundServiceRunning
     THEN [c EXCEPT !.backgroundServiceRunning = FALSE, !.service = "stopped"]
     ELSE c

\* secureFile up to its try block (lines 448-472)
LegacySecureFileStart(content, fileType) ==
  /\ proc.pc = "idle"
  /\ fileCtr < MaxFiles
  /\ LET fileId == fileCtr + 1
     IN /\ fileCtr' = fileId
        /\ proc' = [IdleProc EXCEPT !.pc = "legacyStoring", !.kind = "legacyStore",
                                    !.id = fileId, !.src = content, !.type = fileType,
                                    !.size = Len(content)]
        /\ plain' = [plain EXCEPT ![fileId] = content]
        /\ ops' = [ops EXCEPT ![fileId] = [NoOp EXCEPT !.active = TRUE,
                                                        !.status = "processing"]]
        /\ bg' = LegacyCountOperation(bg)
  /\ UNCHANGED <<secVars, disk, last, streak, relock, chg, cio, cancelled, cleanup, appState,
                 other, journal, midLock>>

\* generateThumbnail (lines 587-607): an error is logged and swallowed
LegacyThumbnail(st, base64Data, fileId) ==
  encryptData(st, SubSeq(base64Data, 1, Min(ThumbSize, Len(base64Data))), ThumbId(fileId))

\* the try block of secureFile and its catch (lines 474-584); the progress
\* values 10, 30, 85 and 95 it passes on the way are left out
LegacySecureFileFinish ==
  /\ proc.pc = "legacyStoring"
  /\ LET fileContent == Base64Encode(proc.src)
         e == IF Len(fileContent) > LegacyLimit
              THEN encryptDataChunked(St, fileContent, proc.id)
              ELSE encryptData(St, fileContent, WholeId(proc.id))
         image == proc.type = "image/jpeg"
         t == LegacyThumbnail(e.st, fileContent, proc.id)
         metadata == [id |-> proc.id, fileType |-> proc.type, size |-> proc.size,
                      encryptedThumbnail |-> image, version |-> 0]
     IN IF e.threw
        THEN /\ Install(e.st)
             /\ proc' = [proc EXCEPT !.pc = "done", !.ret = "threw"]
             /\ ops' = updateOperation(ops, proc.id,
                                       [status |-> "failed",
                                        error |-> "Master key not available"])
             /\ UNCHANGED <<disk, cleanup, journal>>
        ELSE /\ Install(storeFileMetadata(IF image THEN t.st ELSE e.st, metadata))
             /\ disk' = [disk EXCEPT
                           !.enc[proc.id] = [ex |-> TRUE, data |-> e.out],
                           !.thumb[proc.id] = IF image /\ ~t.threw
                                              THEN [ex |-> TRUE, data |-> t.out] ELSE @]
             /\ proc' = [proc EXCEPT !.pc = "done", !.ret = "metadata"]
             /\ ops' = updateOperation(ops, proc.id,
                                       [progress |-> Pct(100, 1), status |-> "completed"])
             /\ cleanup' = AfterSecureFile(proc.id)
             /\ journal' = Append(journal, proc.id)
  /\ bg' = LegacyEndOperation(bg)
  /\ UNCHANGED <<fileCtr, plain, last, streak, relock, chg, cio, cancelled, appState, other,
                 midLock>>

\* cancelOperation of the legacy service (lines 891-898)
LegacyCancelOperation(operationId) ==
  /\ ops[operationId].active
  /\ ops' = [ops EXCEPT ![operationId] = NoOp]
  /\ UNCHANGED <<secVars, last, streak, relock, chg, fileVars, cio, cancelled, cleanup,
                 appState, concVars>>

\* The legacy service at work: files are stored, operations cancelled, the
\* app locked and unlocked, and the cleanup timeouts fire
NextLegacyOps ==
  \/ \E content \in ConcSources, fileType \in FileTypes :
        LegacySecureFileStart(content, fileType)
  \/ LegacySecureFileFinish
  \/ Return
  \/ \E id \in FileIds : LegacyCancelOperation(id)
  \/ \E t \in cleanup : CleanupTimer(t)
  \/ Lock
  \/ VerifyPassword(1, {})

SpecLegacyOps == InitFile /\ [][NextLegacyOps]_vars

\* C37 as claimed: every operation that has reached 'completed' or 'failed'
\* is removed from activeOperations by a cleanup timeout, so that once no
\* call is running and no cleanup timeout is pending, activeOperations and
\* cancelledOperations are empty.
C37_Original ==
  (proc.pc = "idle" /\ cleanup = {})
     => (cancelled = {} /\ \A id \in FileIds : ~ops[id].active)

-----------------------------------------------------------------------------
(* Files of both formats: stored by the legacy secureFile or by the         *)
(* streaming secureFile, and retrieved by getSecureFileUri.                 *)

NextLegacy ==
  \/ /\ fileCtr < MaxSerial
     /\ \E content \in Sources, fileType \in FileTypes :
           LegacySecureFileStart(content, fileType)
  \/ LegacySecureFileFinish
  \/ /\ fileCtr < MaxSerial
     /\ \E content \in ConcSources, fileType \in FileTypes :
           SecureFileStart(content, fileType)
  \/ SecureFileChunk
  \/ SecureFileFinish
  \/ \E id \in FileIds, kind \in {"get", "read"} : GetSecureFileUriStart(id, kind)
  \/ \E g \in GarbageChoices : GetSecureFileUriChunk(g)
  \/ \E g \in GarbageChoices : GetSecureFileUriLegacy(g)
  \/ GetSecureFileUriFinish
  \/ Return
  \/ Lock
  \/ VerifyPassword(1, {})

SpecLegacy == InitFile /\ [][NextLegacy]_vars

\* the version of the record of file id, 0 when it has none
VersionOf(id) ==
  LET m == FindMetadata(storage.files, id)
  IN IF m.found THEN storage.files[m.i].version ELSE 0

\* C39: getSecureFileUri takes the framing loop for a record of version 2
\* and the legacy branch for every other record; with the master key in
\* memory the legacy branch does not fail on a file the legacy secureFile
\* stored (one encryptData blob, or the joined output of
\* encryptDataChunked); and the file a retrieval writes holds the bytes
\* that were stored.
C39_Legacy ==
  /\ [][\A id \in FileIds, kind \in {"get", "read"} :
          (GetSecureFileUriStart(id, kind) /\ proc'.pc \in {"legacy", "decrypting"})
             => (proc'.pc = "decrypting" <=> VersionOf(id) = 2)]_vars
  /\ [][\A g \in GarbageChoices :
          (masterKey # NULL /\ GetSecureFileUriLegacy(g))
             => proc'.ret \in {"uri", "content"}]_vars
  /\ []((Retrieved /\ proc.fresh) => Decrypted(proc.id))

\* a file stored by the legacy secureFile through encryptDataChunked, in
\* three chunks, has come back
C39_Witness ==
  /\ Retrieved /\ proc.fresh
  /\ Secured(proc.id) /\ VersionOf(proc.id) # 2
  /\ Len(Split(disk.enc[proc.id].data, <<>>)) = 3
  /\ Len(plain[proc.id]) > LegacyLimit
  /\ disk.cache[proc.id].data = plain[proc.id]

====
